---- MODULE Spec2Model ----
(***************************************************************************)
(* The student directory's data layer (utils/students.js): the store of    *)
(* 40 student records and the five query functions filterByCity,           *)
(* filterBySubject, filterByGender, findById and filterByName, together    *)
(* with a caller that applies them one after the other to a list.          *)
(*                                                                         *)
(* A JavaScript string is modelled as the sequence of its UTF-16 code      *)
(* units, each written as a one-character string, so that toLowerCase is   *)
(* a computation on the units and not the identity.                        *)
(***************************************************************************)
EXTENDS Naturals, Sequences, FiniteSets, TLC

VARIABLES
    store,    \* the module-level array `students` of utils/students.js
    input,    \* the list the caller starts from (the `students` argument)
    result,   \* the caller's current list (`filteredStudents` / `result`)
    found,    \* what the caller's findById lookup returned, NotCalled before
    calls,    \* log of the calls made: [fn, arg, in, out], oldest first
    comparisons,  \* number of === comparisons the last call evaluated
    route,    \* the prerendered dynamic route being built and served
    paths,    \* what the route's getStaticPaths returned
    pages,    \* the pages generated so far: [params, result] per path
    response, \* the answer to the last request to the route
    now,      \* the server's clock, in seconds since the build started
    isrPage,  \* the cached /students/isr page: what getStaticProps returned
    regenerating,  \* a regeneration of /students/isr is due in the background
    generations,   \* the times at which getStaticProps of isr.js has run
    csr,      \* CSRPage: its state gender, subject and filteredStudents,
              \* and whether its effect is scheduled and has not run
    view      \* what a component rendered last

\* the state of the incrementally regenerated page
isrVars == <<now, isrPage, regenerating, generations>>

\* the state of the build and of the server, and of the pages in the browser
pageVars == <<route, paths, pages, response, isrVars, csr, view>>

vars == <<store, input, result, found, calls, comparisons, pageVars>>

---------------------------------------------------------------------------
(* Bounds of the model. *)

\* longest list built from the sample records
MaxLen == 3
\* most calls one caller makes in a row
MaxCalls == 2

---------------------------------------------------------------------------
(* String.prototype.toLowerCase on the code units the data uses: the       *)
(* letters A-Z and the umlauts map to their lower-case unit, every other   *)
(* unit to itself; the length is kept.                                     *)

UpperUnits ==
    <<"A","B","C","D","E","F","G","H","I","J","K","L","M",
      "N","O","P","Q","R","S","T","U","V","W","X","Y","Z","Ä","Ö","Ü">>

LowerUnits ==
    <<"a","b","c","d","e","f","g","h","i","j","k","l","m",
      "n","o","p","q","r","s","t","u","v","w","x","y","z","ä","ö","ü">>

\* upper-case unit |-> its lower-case unit
LowerOfUpper ==
    [u \in {UpperUnits[i] : i \in DOMAIN UpperUnits} |->
        LowerUnits[CHOOSE i \in DOMAIN UpperUnits : UpperUnits[i] = u]]

toLowerCaseUnit(c) ==
    IF c \in DOMAIN LowerOfUpper THEN LowerOfUpper[c] ELSE c

toLowerCase(s) == [i \in 1..Len(s) |-> toLowerCaseUnit(s[i])]

---------------------------------------------------------------------------
(* The store: export const students = [ ... ], 40 records in source order. *)

students ==
    <<
      \* S001 Anna Schmidt (students.js lines 33-41)
      [ID |-> <<"S","0","0","1">>,
       firstname |-> <<"A","n","n","a">>,
       lastname |-> <<"S","c","h","m","i","d","t">>,
       gender |-> <<"f","e","m","a","l","e">>,
       birthdate |-> <<"1","9","9","8","-","0","3","-","1","5">>,
       studysubject |-> <<"P","h","y","s","i","c","s">>,
       city |-> <<"M","u","n","i","c","h">>],
      \* S002 Ben Müller (students.js lines 42-50)
      [ID |-> <<"S","0","0","2">>,
       firstname |-> <<"B","e","n">>,
       lastname |-> <<"M","ü","l","l","e","r">>,
       gender |-> <<"m","a","l","e">>,
       birthdate |-> <<"1","9","9","7","-","0","6","-","2","2">>,
       studysubject |-> <<"P","h","y","s","i","c","s">>,
       city |-> <<"V","i","e","n","n","a">>],
      \* S003 Clara Weber (students.js lines 51-59)
      [ID |-> <<"S","0","0","3">>,
       firstname |-> <<"C","l","a","r","a">>,
       lastname |-> <<"W","e","b","e","r">>,
       gender |-> <<"f","e","m","a","l","e">>,
       birthdate |-> <<"1","9","9","9","-","0","1","-","1","0">>,
       studysubject |-> <<"P","h","y","s","i","c","s">>,
       city |-> <<"P","r","a","g","u","e">>],
      \* S004 David Fischer (students.js lines 60-68)
      [ID |-> <<"S","0","0","4">>,
       firstname |-> <<"D","a","v","i","d">>,
       lastname |-> <<"F","i","s","c","h","e","r">>,
       gender |-> <<"m","a","l","e">>,
       birthdate |-> <<"1","9","9","6","-","1","1","-","0","5">>,
       studysubject |-> <<"P","h","y","s","i","c","s">>,
       city |-> <<"M","a","d","r","i","d">>],
      \* S005 Emma Meyer (students.js lines 69-77)
      [ID |-> <<"S","0","0","5">>,
       firstname |-> <<"E","m","m","a">>,
       lastname |-> <<"M","e","y","e","r">>,
       gender |-> <<"f","e","m","a","l","e">>,
       birthdate |-> <<"1","9","9","8","-","0","7","-","1","9">>,
       studysubject |-> <<"P","h","y","s","i","c","s">>,
       city |-> <<"P","a","r","i","s">>],
      \* S006 Finn Schulz (students.js lines 78-86)
      [ID |-> <<"S","0","0","6">>,
       firstname |-> <<"F","i","n","n">>,
       lastname |-> <<"S","c","h","u","l","z">>,
       gender |-> <<"m","a","l","e">>,
       birthdate |-> <<"1","9","9","7","-","0","4","-","1","2">>,
       studysubject |-> <<"P","h","y","s","i","c","s">>,
       city |-> <<"R","o","m","e">>],
      \* S007 Greta Koch (students.js lines 87-95)
      [ID |-> <<"S","0","0","7">>,
       firstname |-> <<"G","r","e","t","a">>,
       lastname |-> <<"K","o","c","h">>,
       gender |-> <<"f","e","m","a","l","e">>,
       birthdate |-> <<"1","9","9","9","-","0","9","-","2","5">>,
       studysubject |-> <<"P","h","y","s","i","c","s">>,
       city |-> <<"M","u","n","i","c","h">>],
      \* S008 Hannes Bauer (students.js lines 96-104)
      [ID |-> <<"S","0","0","8">>,
       firstname |-> <<"H","a","n","n","e","s">>,
       lastname |-> <<"B","a","u","e","r">>,
       gender |-> <<"m","a","l","e">>,
       birthdate |-> <<"1","9","9","6","-","1","2","-","3","0">>,
       studysubject |-> <<"P","h","y","s","i","c","s">>,
       city |-> <<"V","i","e","n","n","a">>],
      \* S009 Ida Richter (students.js lines 105-113)
      [ID |-> <<"S","0","0","9">>,
       firstname |-> <<"I","d","a">>,
       lastname |-> <<"R","i","c","h","t","e","r">>,
       gender |-> <<"f","e","m","a","l","e">>,
       birthdate |-> <<"1","9","9","8","-","0","2","-","0","8">>,
       studysubject |-> <<"P","h","y","s","i","c","s">>,
       city |-> <<"P","r","a","g","u","e">>],
      \* S010 Jonas Schäfer (students.js lines 114-122)
      [ID |-> <<"S","0","1","0">>,
       firstname |-> <<"J","o","n","a","s">>,
       lastname |-> <<"S","c","h","ä","f","e","r">>,
       gender |-> <<"m","a","l","e">>,
       birthdate |-> <<"1","9","9","7","-","0","8","-","1","4">>,
       studysubject |-> <<"P","h","y","s","i","c","s">>,
       city |-> <<"M","a","d","r","i","d">>],
      \* S011 Klara Wagner (students.js lines 125-133)
      [ID |-> <<"S","0","1","1">>,
       firstname |-> <<"K","l","a","r","a">>,
       lastname |-> <<"W","a","g","n","e","r">>,
       gender |-> <<"f","e","m","a","l","e">>,
       birthdate |-> <<"1","9","9","9","-","0","5","-","0","3">>,
       studysubject |-> <<"M","a","t","h","e","m","a","t","i","c","s">>,
       city |-> <<"P","a","r","i","s">>],
      \* S012 Lars Becker (students.js lines 134-142)
      [ID |-> <<"S","0","1","2">>,
       firstname |-> <<"L","a","r","s">>,
       lastname |-> <<"B","e","c","k","e","r">>,
       gender |-> <<"m","a","l","e">>,
       birthdate |-> <<"1","9","9","6","-","1","0","-","1","7">>,
       studysubject |-> <<"M","a","t","h","e","m","a","t","i","c","s">>,
       city |-> <<"R","o","m","e">>],
      \* S013 Mia Hofmann (students.js lines 143-151)
      [ID |-> <<"S","0","1","3">>,
       firstname |-> <<"M","i","a">>,
       lastname |-> <<"H","o","f","m","a","n","n">>,
       gender |-> <<"f","e","m","a","l","e">>,
       birthdate |-> <<"1","9","9","8","-","0","4","-","2","9">>,
       studysubject |-> <<"M","a","t","h","e","m","a","t","i","c","s">>,
       city |-> <<"M","u","n","i","c","h">>],
      \* S014 Noah Schröder (students.js lines 152-160)
      [ID |-> <<"S","0","1","4">>,
       firstname |-> <<"N","o","a","h">>,
       lastname |-> <<"S","c","h","r","ö","d","e","r">>,
       gender |-> <<"m","a","l","e">>,
       birthdate |-> <<"1","9","9","7","-","0","3","-","1","1">>,
       studysubject |-> <<"M","a","t","h","e","m","a","t","i","c","s">>,
       city |-> <<"V","i","e","n","n","a">>],
      \* S015 Olivia Neumann (students.js lines 161-169)
      [ID |-> <<"S","0","1","5">>,
       firstname |-> <<"O","l","i","v","i","a">>,
       lastname |-> <<"N","e","u","m","a","n","n">>,
       gender |-> <<"f","e","m","a","l","e">>,
       birthdate |-> <<"1","9","9","9","-","0","6","-","2","6">>,
       studysubject |-> <<"M","a","t","h","e","m","a","t","i","c","s">>,
       city |-> <<"P","r","a","g","u","e">>],
      \* S016 Paul Schwarz (students.js lines 170-178)
      [ID |-> <<"S","0","1","6">>,
       firstname |-> <<"P","a","u","l">>,
       lastname |-> <<"S","c","h","w","a","r","z">>,
       gender |-> <<"m","a","l","e">>,
       birthdate |-> <<"1","9","9","6","-","0","9","-","0","8">>,
       studysubject |-> <<"M","a","t","h","e","m","a","t","i","c","s">>,
       city |-> <<"M","a","d","r","i","d">>],
      \* S017 Quinn Zimmermann (students.js lines 179-187)
      [ID |-> <<"S","0","1","7">>,
       firstname |-> <<"Q","u","i","n","n">>,
       lastname |-> <<"Z","i","m","m","e","r","m","a","n","n">>,
       gender |-> <<"f","e","m","a","l","e">>,
       birthdate |-> <<"1","9","9","8","-","0","1","-","1","4">>,
       studysubject |-> <<"M","a","t","h","e","m","a","t","i","c","s">>,
       city |-> <<"P","a","r","i","s">>],
      \* S018 Ruben Krause (students.js lines 188-196)
      [ID |-> <<"S","0","1","8">>,
       firstname |-> <<"R","u","b","e","n">>,
       lastname |-> <<"K","r","a","u","s","e">>,
       gender |-> <<"m","a","l","e">>,
       birthdate |-> <<"1","9","9","7","-","0","7","-","2","0">>,
       studysubject |-> <<"M","a","t","h","e","m","a","t","i","c","s">>,
       city |-> <<"R","o","m","e">>],
      \* S019 Sophie Schneider (students.js lines 197-205)
      [ID |-> <<"S","0","1","9">>,
       firstname |-> <<"S","o","p","h","i","e">>,
       lastname |-> <<"S","c","h","n","e","i","d","e","r">>,
       gender |-> <<"f","e","m","a","l","e">>,
       birthdate |-> <<"1","9","9","9","-","0","2","-","2","7">>,
       studysubject |-> <<"M","a","t","h","e","m","a","t","i","c","s">>,
       city |-> <<"M","u","n","i","c","h">>],
      \* S020 Theo Schubert (students.js lines 206-214)
      [ID |-> <<"S","0","2","0">>,
       firstname |-> <<"T","h","e","o">>,
       lastname |-> <<"S","c","h","u","b","e","r","t">>,
       gender |-> <<"m","a","l","e">>,
       birthdate |-> <<"1","9","9","6","-","1","2","-","0","3">>,
       studysubject |-> <<"M","a","t","h","e","m","a","t","i","c","s">>,
       city |-> <<"V","i","e","n","n","a">>],
      \* S021 Ursula Fuchs (students.js lines 217-225)
      [ID |-> <<"S","0","2","1">>,
       firstname |-> <<"U","r","s","u","l","a">>,
       lastname |-> <<"F","u","c","h","s">>,
       gender |-> <<"f","e","m","a","l","e">>,
       birthdate |-> <<"1","9","9","8","-","0","8","-","1","6">>,
       studysubject |-> <<"C","o","m","p","u","t","e","r"," ","S","c","i","e","n","c","e">>,
       city |-> <<"P","r","a","g","u","e">>],
      \* S022 Viktor Schreiber (students.js lines 226-234)
      [ID |-> <<"S","0","2","2">>,
       firstname |-> <<"V","i","k","t","o","r">>,
       lastname |-> <<"S","c","h","r","e","i","b","e","r">>,
       gender |-> <<"m","a","l","e">>,
       birthdate |-> <<"1","9","9","7","-","0","5","-","0","9">>,
       studysubject |-> <<"C","o","m","p","u","t","e","r"," ","S","c","i","e","n","c","e">>,
       city |-> <<"M","a","d","r","i","d">>],
      \* S023 Wanda Vogel (students.js lines 235-243)
      [ID |-> <<"S","0","2","3">>,
       firstname |-> <<"W","a","n","d","a">>,
       lastname |-> <<"V","o","g","e","l">>,
       gender |-> <<"f","e","m","a","l","e">>,
       birthdate |-> <<"1","9","9","9","-","0","3","-","2","2">>,
       studysubject |-> <<"C","o","m","p","u","t","e","r"," ","S","c","i","e","n","c","e">>,
       city |-> <<"P","a","r","i","s">>],
      \* S024 Xaver Wolff (students.js lines 244-252)
      [ID |-> <<"S","0","2","4">>,
       firstname |-> <<"X","a","v","e","r">>,
       lastname |-> <<"W","o","l","f","f">>,
       gender |-> <<"m","a","l","e">>,
       birthdate |-> <<"1","9","9","6","-","1","1","-","2","8">>,
       studysubject |-> <<"C","o","m","p","u","t","e","r"," ","S","c","i","e","n","c","e">>,
       city |-> <<"R","o","m","e">>],
      \* S025 Yara Schröter (students.js lines 253-261)
      [ID |-> <<"S","0","2","5">>,
       firstname |-> <<"Y","a","r","a">>,
       lastname |-> <<"S","c","h","r","ö","t","e","r">>,
       gender |-> <<"f","e","m","a","l","e">>,
       birthdate |-> <<"1","9","9","8","-","0","6","-","0","4">>,
       studysubject |-> <<"C","o","m","p","u","t","e","r"," ","S","c","i","e","n","c","e">>,
       city |-> <<"M","u","n","i","c","h">>],
      \* S026 Zane Fischer (students.js lines 262-270)
      [ID |-> <<"S","0","2","6">>,
       firstname |-> <<"Z","a","n","e">>,
       lastname |-> <<"F","i","s","c","h","e","r">>,
       gender |-> <<"m","a","l","e">>,
       birthdate |-> <<"1","9","9","7","-","0","2","-","1","5">>,
       studysubject |-> <<"C","o","m","p","u","t","e","r"," ","S","c","i","e","n","c","e">>,
       city |-> <<"V","i","e","n","n","a">>],
      \* S027 Alma Mayer (students.js lines 271-279)
      [ID |-> <<"S","0","2","7">>,
       firstname |-> <<"A","l","m","a">>,
       lastname |-> <<"M","a","y","e","r">>,
       gender |-> <<"f","e","m","a","l","e">>,
       birthdate |-> <<"1","9","9","9","-","0","7","-","3","1">>,
       studysubject |-> <<"C","o","m","p","u","t","e","r"," ","S","c","i","e","n","c","e">>,
       city |-> <<"P","r","a","g","u","e">>],
      \* S028 Bruno König (students.js lines 280-288)
      [ID |-> <<"S","0","2","8">>,
       firstname |-> <<"B","r","u","n","o">>,
       lastname |-> <<"K","ö","n","i","g">>,
       gender |-> <<"m","a","l","e">>,
       birthdate |-> <<"1","9","9","6","-","1","0","-","2","3">>,
       studysubject |-> <<"C","o","m","p","u","t","e","r"," ","S","c","i","e","n","c","e">>,
       city |-> <<"M","a","d","r","i","d">>],
      \* S029 Celine Schulz (students.js lines 289-297)
      [ID |-> <<"S","0","2","9">>,
       firstname |-> <<"C","e","l","i","n","e">>,
       lastname |-> <<"S","c","h","u","l","z">>,
       gender |-> <<"f","e","m","a","l","e">>,
       birthdate |-> <<"1","9","9","8","-","0","9","-","1","2">>,
       studysubject |-> <<"C","o","m","p","u","t","e","r"," ","S","c","i","e","n","c","e">>,
       city |-> <<"P","a","r","i","s">>],
      \* S030 Dorian Weber (students.js lines 298-306)
      [ID |-> <<"S","0","3","0">>,
       firstname |-> <<"D","o","r","i","a","n">>,
       lastname |-> <<"W","e","b","e","r">>,
       gender |-> <<"m","a","l","e">>,
       birthdate |-> <<"1","9","9","7","-","0","4","-","0","6">>,
       studysubject |-> <<"C","o","m","p","u","t","e","r"," ","S","c","i","e","n","c","e">>,
       city |-> <<"R","o","m","e">>],
      \* S031 Elisa Bauer (students.js lines 309-317)
      [ID |-> <<"S","0","3","1">>,
       firstname |-> <<"E","l","i","s","a">>,
       lastname |-> <<"B","a","u","e","r">>,
       gender |-> <<"f","e","m","a","l","e">>,
       birthdate |-> <<"1","9","9","9","-","0","1","-","1","9">>,
       studysubject |-> <<"M","e","d","i","c","i","n","e">>,
       city |-> <<"M","u","n","i","c","h">>],
      \* S032 Felix Richter (students.js lines 318-326)
      [ID |-> <<"S","0","3","2">>,
       firstname |-> <<"F","e","l","i","x">>,
       lastname |-> <<"R","i","c","h","t","e","r">>,
       gender |-> <<"m","a","l","e">>,
       birthdate |-> <<"1","9","9","6","-","0","8","-","0","2">>,
       studysubject |-> <<"M","e","d","i","c","i","n","e">>,
       city |-> <<"V","i","e","n","n","a">>],
      \* S033 Gina Kuhn (students.js lines 327-335)
      [ID |-> <<"S","0","3","3">>,
       firstname |-> <<"G","i","n","a">>,
       lastname |-> <<"K","u","h","n">>,
       gender |-> <<"f","e","m","a","l","e">>,
       birthdate |-> <<"1","9","9","8","-","0","3","-","2","7">>,
       studysubject |-> <<"M","e","d","i","c","i","n","e">>,
       city |-> <<"P","r","a","g","u","e">>],
      \* S034 Henry Schäfer (students.js lines 336-344)
      [ID |-> <<"S","0","3","4">>,
       firstname |-> <<"H","e","n","r","y">>,
       lastname |-> <<"S","c","h","ä","f","e","r">>,
       gender |-> <<"m","a","l","e">>,
       birthdate |-> <<"1","9","9","7","-","0","6","-","1","3">>,
       studysubject |-> <<"M","e","d","i","c","i","n","e">>,
       city |-> <<"M","a","d","r","i","d">>],
      \* S035 Iris Wagner (students.js lines 345-353)
      [ID |-> <<"S","0","3","5">>,
       firstname |-> <<"I","r","i","s">>,
       lastname |-> <<"W","a","g","n","e","r">>,
       gender |-> <<"f","e","m","a","l","e">>,
       birthdate |-> <<"1","9","9","9","-","0","5","-","0","8">>,
       studysubject |-> <<"M","e","d","i","c","i","n","e">>,
       city |-> <<"P","a","r","i","s">>],
      \* S036 Julian Becker (students.js lines 354-362)
      [ID |-> <<"S","0","3","6">>,
       firstname |-> <<"J","u","l","i","a","n">>,
       lastname |-> <<"B","e","c","k","e","r">>,
       gender |-> <<"m","a","l","e">>,
       birthdate |-> <<"1","9","9","6","-","1","2","-","1","5">>,
       studysubject |-> <<"M","e","d","i","c","i","n","e">>,
       city |-> <<"R","o","m","e">>],
      \* S037 Kaja Hofmann (students.js lines 363-371)
      [ID |-> <<"S","0","3","7">>,
       firstname |-> <<"K","a","j","a">>,
       lastname |-> <<"H","o","f","m","a","n","n">>,
       gender |-> <<"f","e","m","a","l","e">>,
       birthdate |-> <<"1","9","9","8","-","0","2","-","2","1">>,
       studysubject |-> <<"M","e","d","i","c","i","n","e">>,
       city |-> <<"M","u","n","i","c","h">>],
      \* S038 Leon Schröder (students.js lines 372-380)
      [ID |-> <<"S","0","3","8">>,
       firstname |-> <<"L","e","o","n">>,
       lastname |-> <<"S","c","h","r","ö","d","e","r">>,
       gender |-> <<"m","a","l","e">>,
       birthdate |-> <<"1","9","9","7","-","0","9","-","0","4">>,
       studysubject |-> <<"M","e","d","i","c","i","n","e">>,
       city |-> <<"V","i","e","n","n","a">>],
      \* S039 Mira Neumann (students.js lines 381-389)
      [ID |-> <<"S","0","3","9">>,
       firstname |-> <<"M","i","r","a">>,
       lastname |-> <<"N","e","u","m","a","n","n">>,
       gender |-> <<"f","e","m","a","l","e">>,
       birthdate |-> <<"1","9","9","9","-","0","4","-","1","7">>,
       studysubject |-> <<"M","e","d","i","c","i","n","e">>,
       city |-> <<"P","r","a","g","u","e">>],
      \* S040 Nico Schwarz (students.js lines 390-398)
      [ID |-> <<"S","0","4","0">>,
       firstname |-> <<"N","i","c","o">>,
       lastname |-> <<"S","c","h","w","a","r","z">>,
       gender |-> <<"m","a","l","e">>,
       birthdate |-> <<"1","9","9","6","-","0","7","-","2","9">>,
       studysubject |-> <<"M","e","d","i","c","i","n","e">>,
       city |-> <<"M","a","d","r","i","d">>]
    >>

---------------------------------------------------------------------------
(* JavaScript's absent values.  A record is an object, hence truthy; the   *)
(* two absent values are falsy and distinct from each other.               *)

Undefined == [absent |-> "undefined"]
Null == [absent |-> "null"]

\* `found` before the caller has looked anything up
NotCalled == [absent |-> "not called"]

---------------------------------------------------------------------------
(* The query functions.  Array.prototype.filter keeps, in order, the       *)
(* elements its test accepts; Array.prototype.find returns the first       *)
(* element its test accepts, or undefined.                                 *)

\* the list reversed
RECURSIVE Reverse(_)
Reverse(s) == IF s = <<>> THEN <<>> ELSE Append(Reverse(Tail(s)), Head(s))

\* sub occurs in s as a run of consecutive units (String.prototype.includes)
IsInfix(sub, s) ==
    \E i \in 1..(Len(s) + 1) : \E j \in (i - 1)..Len(s) : SubSeq(s, i, j) = sub

\* slip: an empty result is returned as null, as findById does
filterByCity_NullWhenEmpty(list, city) ==
    LET all == SelectSeq(list, LAMBDA student :
                   toLowerCase(student.city) = toLowerCase(city))
    IN  IF all = <<>> THEN Null ELSE all

\* slip: the argument is compared as given, only the field is lower-cased
filterByCity_RawArg(list, city) ==
    SelectSeq(list, LAMBDA student : toLowerCase(student.city) = city)

\* slip: only the first match is kept
filterByCity_FirstOnly(list, city) ==
    LET all == SelectSeq(list, LAMBDA student :
                   toLowerCase(student.city) = toLowerCase(city))
    IN  IF all = <<>> THEN <<>> ELSE <<Head(all)>>

filterByCity(list, city) ==
    SelectSeq(list, LAMBDA student :
        toLowerCase(student.city) = toLowerCase(city))

\* slip: the module-level store is filtered instead of the argument
filterBySubject_FromStore(list, subject) ==
    SelectSeq(students, LAMBDA student :
        toLowerCase(student.studysubject) = toLowerCase(subject))

\* slip: the matches come back in reverse order
filterBySubject_Reversed(list, subject) ==
    Reverse(SelectSeq(list, LAMBDA student :
        toLowerCase(student.studysubject) = toLowerCase(subject)))

filterBySubject(list, subject) ==
    SelectSeq(list, LAMBDA student :
        toLowerCase(student.studysubject) = toLowerCase(subject))

\* slip: the matches come back in reverse order
filterByGender_Reversed(list, gender) ==
    Reverse(SelectSeq(list, LAMBDA student :
        toLowerCase(student.gender) = toLowerCase(gender)))

\* slip: the argument is compared as given, only the field is lower-cased
filterByGender_RawArg(list, gender) ==
    SelectSeq(list, LAMBDA student : toLowerCase(student.gender) = gender)

filterByGender(list, gender) ==
    SelectSeq(list, LAMBDA student :
        toLowerCase(student.gender) = toLowerCase(gender))

\* slip: the search starts at the second element
ArrayFind_SkipFirst(list, id) ==
    IF \E i \in DOMAIN list : i > 1 /\ list[i].ID = id
    THEN list[CHOOSE i \in DOMAIN list :
                  /\ i > 1 /\ list[i].ID = id
                  /\ \A j \in DOMAIN list : (j > 1 /\ list[j].ID = id) => i <= j]
    ELSE Undefined

ArrayFind(list, id) ==
    IF \E i \in DOMAIN list : list[i].ID = id
    THEN list[CHOOSE i \in DOMAIN list :
                  /\ list[i].ID = id
                  /\ \A j \in DOMAIN list : list[j].ID = id => i <= j]
    ELSE Undefined

\* slip: IDs are compared in lower case like the other fields
findById_IgnoreCase(list, id) ==
    LET hits == {i \in DOMAIN list : toLowerCase(list[i].ID) = toLowerCase(id)}
    IN  IF hits = {} THEN Null
        ELSE list[CHOOSE i \in hits : \A j \in hits : i <= j]

\* slip: the `|| null` is left out
findById_NoDefault(list, id) == ArrayFind(list, id)

\* students.find(...) || null
findById(list, id) ==
    LET hit == ArrayFind(list, id)
    IN  IF hit \notin {Undefined, Null} THEN hit ELSE Null

\* slip: a name matches when it contains the argument
(* The === comparisons a call evaluates.  A one-field filter compares once  *)
(* per element.  filterByName compares the firstname and, because of ||,   *)
(* the lastname only when the firstname differs.  find stops at the first  *)
(* element its test accepts.                                               *)

filterComparisons(list) == Len(list)

\* slip: the full name is compared as well when neither name matches
filterByNameComparisons_FullName(list, name) ==
    Len(list)
        + Cardinality({i \in DOMAIN list :
              toLowerCase(list[i].firstname) # toLowerCase(name)})
        + Cardinality({i \in DOMAIN list :
              /\ toLowerCase(list[i].firstname) # toLowerCase(name)
              /\ toLowerCase(list[i].lastname) # toLowerCase(name)})

\* one comparison per element, and a second one where the first is false
filterByNameComparisons(list, name) ==
    Len(list)
        + Cardinality({i \in DOMAIN list :
              toLowerCase(list[i].firstname) # toLowerCase(name)})

findByIdComparisons(list, id) ==
    IF \E i \in DOMAIN list : list[i].ID = id
    THEN CHOOSE i \in DOMAIN list :
             /\ list[i].ID = id
             /\ \A j \in DOMAIN list : list[j].ID = id => i <= j
    ELSE Len(list)

filterByName_Includes(list, name) ==
    SelectSeq(list, LAMBDA student :
        \/ IsInfix(toLowerCase(name), toLowerCase(student.firstname))
        \/ IsInfix(toLowerCase(name), toLowerCase(student.lastname)))

\* slip: the matches by firstname followed by the matches by lastname
filterByName_Concat(list, name) ==
    SelectSeq(list, LAMBDA student :
        toLowerCase(student.firstname) = toLowerCase(name))
    \o SelectSeq(list, LAMBDA student :
        toLowerCase(student.lastname) = toLowerCase(name))

filterByName(list, name) ==
    SelectSeq(list, LAMBDA student :
        \/ toLowerCase(student.firstname) = toLowerCase(name)
        \/ toLowerCase(student.lastname) = toLowerCase(name))

---------------------------------------------------------------------------
(* Inputs.  The functions take any list of records, so besides the store   *)
(* the caller may start from any list of at most MaxLen sample records.    *)
(* The samples are the first store record, a record with the same ID whose *)
(* fields differ from it in letter case only (and whose two names are      *)
(* equal), and a record whose ID and names differ from it by case or by    *)
(* being longer.                                                           *)

Anna == students[1]

AnnaUpper ==
    [ID |-> <<"S","0","0","1">>,
     firstname |-> <<"A","N","N","A">>,
     lastname |-> <<"a","n","n","a">>,
     gender |-> <<"F","E","M","A","L","E">>,
     birthdate |-> <<"1","9","9","8","-","0","3","-","1","5">>,
     studysubject |-> <<"P","H","Y","S","I","C","S">>,
     city |-> <<"M","U","N","I","C","H">>]

Annalena ==
    [ID |-> <<"s","0","0","1">>,
     firstname |-> <<"A","n","n","a","l","e","n","a">>,
     lastname |-> <<"S","c","h","m","i","d","t","k","e">>,
     gender |-> <<"m","a","l","e">>,
     birthdate |-> <<"1","9","9","7","-","0","6","-","2","2">>,
     studysubject |-> <<"M","e","d","i","c","i","n","e">>,
     city |-> <<"V","i","e","n","n","a">>]

Pool == {Anna, AnnaUpper, Annalena}

RECURSIVE ListsUpTo(_)
ListsUpTo(n) ==
    IF n = 0 THEN {<<>>}
    ELSE LET shorter == ListsUpTo(n - 1)
         IN  shorter \cup {Append(l, r) : l \in shorter, r \in Pool}

Inputs == {students} \cup ListsUpTo(MaxLen)

(* Arguments the caller passes: values of the store, their variants in     *)
(* letter case, and values no record carries.                              *)

CityArgs ==
    {<<"M","u","n","i","c","h">>,
     <<"M","U","N","I","C","H">>,
     <<"V","i","e","n","n","a">>,
     <<"O","s","l","o">>}

SubjectArgs ==
    {<<"P","h","y","s","i","c","s">>,
     <<"p","h","y","s","i","c","s">>,
     <<"M","a","t","h","e","m","a","t","i","c","s">>,
     <<"C","o","m","p","u","t","e","r"," ","S","c","i","e","n","c","e">>,
     <<"M","e","d","i","c","i","n","e">>}

GenderArgs ==
    {<<"m","a","l","e">>,
     <<"f","e","m","a","l","e">>,
     <<"F","E","M","A","L","E">>}

NameArgs ==
    {<<"A","n","n","a">>,
     <<"A","N","N","A">>,
     <<"A","n","n">>,
     <<"A","n","n","a"," ","S","c","h","m","i","d","t">>,
     <<"S","c","h","m","i","d","t">>,
     <<"F","i","s","c","h","e","r">>}

\* the IDs of the list at hand, a lower-case variant and an unused ID
IdArgs(list) ==
    {list[i].ID : i \in DOMAIN list}
        \cup {<<"S","0","0","1">>, <<"s","0","0","1">>, <<"S","9","9","9">>}

---------------------------------------------------------------------------
(* The caller.  Each action is one call on the caller's current list; a    *)
(* filter's result becomes the current list (as in getStaticProps and the  *)
(* CSR effect, which filter the previous result), a lookup ends the chain. *)

\* nothing built, nothing requested
NoRoute == "no route"
NotBuilt == [absent |-> "not built"]
NoResponse == [absent |-> "no response"]

NotMounted == [absent |-> "not mounted"]
NotRendered == [absent |-> "not rendered"]

\* before the build: no route is built, no page is generated, mounted or
\* rendered, and the clock starts
NothingBuilt ==
    /\ route = NoRoute
    /\ paths = NotBuilt
    /\ pages = <<>>
    /\ response = NoResponse
    /\ now = 0
    /\ isrPage = NotBuilt
    /\ regenerating = FALSE
    /\ generations = {}
    /\ csr = NotMounted
    /\ view = NotRendered

\* a store whose first record was entered as male
Init_OneGenderChanged ==
    /\ store = [students EXCEPT ![1].gender = students[2].gender]
    /\ input \in {store} \cup ListsUpTo(MaxLen)
    /\ result = input
    /\ found = NotCalled
    /\ calls = <<>>
    /\ comparisons = 0
    /\ NothingBuilt

\* a store whose second record was given the ID of the first
Init_DuplicateId ==
    /\ store = [students EXCEPT ![2].ID = students[1].ID]
    /\ input \in {store} \cup ListsUpTo(MaxLen)
    /\ result = input
    /\ found = NotCalled
    /\ calls = <<>>
    /\ comparisons = 0
    /\ NothingBuilt

Init ==
    /\ store = students
    /\ input \in Inputs
    /\ result = input
    /\ found = NotCalled
    /\ calls = <<>>
    /\ comparisons = 0
    /\ NothingBuilt

MayCall == Len(calls) < MaxCalls /\ found = NotCalled

\* the filter collecting into an array that lives at module level and is
\* shared by all calls: what earlier calls collected is still in it
CallFilterByCity_SharedBuffer(city) ==
    /\ MayCall
    /\ result' =
           LET earlier == {k \in DOMAIN calls : calls[k].fn = "filterByCity"}
               buffer == IF earlier = {} THEN <<>>
                         ELSE calls[CHOOSE k \in earlier :
                                        \A j \in earlier : j <= k].out
           IN  buffer \o filterByCity(result, city)
    /\ calls' = Append(calls, [fn |-> "filterByCity", arg |-> city,
                               in |-> result, out |-> result'])
    /\ comparisons' = filterComparisons(result)
    /\ UNCHANGED <<store, input, found, pageVars>>

CallFilterByCity(city) ==
    /\ MayCall
    /\ result' = filterByCity(result, city)
    /\ calls' = Append(calls, [fn |-> "filterByCity", arg |-> city,
                               in |-> result, out |-> result'])
    /\ comparisons' = filterComparisons(result)
    /\ UNCHANGED <<store, input, found, pageVars>>

CallFilterBySubject(subject) ==
    /\ MayCall
    /\ result' = filterBySubject(result, subject)
    /\ calls' = Append(calls, [fn |-> "filterBySubject", arg |-> subject,
                               in |-> result, out |-> result'])
    /\ comparisons' = filterComparisons(result)
    /\ UNCHANGED <<store, input, found, pageVars>>

\* the filter written with splice: it removes the rejected elements from
\* the array it was passed, which is the caller's first list and, when
\* that list is the store, the store
CallFilterByGender_InPlace(gender) ==
    /\ MayCall
    /\ result' = filterByGender(result, gender)
    /\ calls' = Append(calls, [fn |-> "filterByGender", arg |-> gender,
                               in |-> result, out |-> result'])
    /\ comparisons' = filterComparisons(result)
    /\ input' = IF calls = <<>> THEN result' ELSE input
    /\ store' = IF calls = <<>> /\ input = store THEN result' ELSE store
    /\ UNCHANGED <<found, pageVars>>

CallFilterByGender(gender) ==
    /\ MayCall
    /\ result' = filterByGender(result, gender)
    /\ calls' = Append(calls, [fn |-> "filterByGender", arg |-> gender,
                               in |-> result, out |-> result'])
    /\ comparisons' = filterComparisons(result)
    /\ UNCHANGED <<store, input, found, pageVars>>

CallFilterByName(name) ==
    /\ MayCall
    /\ result' = filterByName(result, name)
    /\ calls' = Append(calls, [fn |-> "filterByName", arg |-> name,
                               in |-> result, out |-> result'])
    /\ comparisons' = filterByNameComparisons(result, name)
    /\ UNCHANGED <<store, input, found, pageVars>>

CallFindById(id) ==
    /\ MayCall
    /\ found' = findById(result, id)
    /\ calls' = Append(calls, [fn |-> "findById", arg |-> id,
                               in |-> result, out |-> found'])
    /\ comparisons' = findByIdComparisons(result, id)
    /\ UNCHANGED <<store, input, result, pageVars>>

Next ==
    \/ \E city \in CityArgs : CallFilterByCity(city)
    \/ \E subject \in SubjectArgs : CallFilterBySubject(subject)
    \/ \E gender \in GenderArgs : CallFilterByGender(gender)
    \/ \E name \in NameArgs : CallFilterByName(name)
    \/ \E id \in IdArgs(result) : CallFindById(id)

Spec == Init /\ [][Next]_vars

(* The caller of the store: it starts from the store and passes to each    *)
(* function a value taken from a record of the list it holds.              *)

StoreInit == Init /\ input = store

StoreNext ==
    \/ \E i \in DOMAIN result : CallFilterByCity(result[i].city)
    \/ \E i \in DOMAIN result : CallFilterBySubject(result[i].studysubject)
    \/ \E i \in DOMAIN result : CallFilterByGender(result[i].gender)
    \/ \E i \in DOMAIN result : CallFilterByName(result[i].firstname)
    \/ \E i \in DOMAIN result : CallFilterByName(result[i].lastname)
    \/ \E i \in DOMAIN result : CallFindById(result[i].ID)

StoreSpec == StoreInit /\ [][StoreNext]_vars

(* Several callers, as concurrent requests are.  JavaScript runs each call *)
(* to completion, so the calls of the callers interleave as wholes.  The   *)
(* caller that makes the next call holds the store or a list some earlier  *)
(* filter call returned, and has made no lookup yet.                       *)

ListsInHand ==
    {input} \cup {calls[k].out : k \in {j \in DOMAIN calls :
                                           calls[j].fn # "findById"}}

SwitchCaller ==
    /\ calls # <<>>
    /\ Len(calls) < MaxCalls
    /\ \E list \in ListsInHand :
          /\ list # result \/ found # NotCalled
          /\ result' = list
    /\ found' = NotCalled
    /\ UNCHANGED <<store, input, calls, comparisons, pageVars>>

\* the callers look up the IDs that do not depend on the list
ConcurrentNext ==
    \/ \E city \in CityArgs : CallFilterByCity(city)
    \/ \E subject \in SubjectArgs : CallFilterBySubject(subject)
    \/ \E gender \in GenderArgs : CallFilterByGender(gender)
    \/ \E name \in NameArgs : CallFilterByName(name)
    \/ \E id \in IdArgs(<<>>) : CallFindById(id)
    \/ SwitchCaller

ConcurrentSpec == StoreInit /\ [][ConcurrentNext]_vars

---------------------------------------------------------------------------
(* The prerendered dynamic routes: pages/students/idfilterssg/[ID].js and  *)
(* pages/students/gscatchallssg/[[...gendersubject]].js.  Both read the    *)
(* module-level array, here the variable store.                            *)

\* v is undefined or null; v may as well be an array or a string, which
\* TLC does not compare with a record, so the printed forms are compared
IsAbsent(v) == ToString(v) \in {ToString(Undefined), ToString(Null)}

\* a string or an absent value is truthy unless it is absent or empty
IsTruthy(v) == ~IsAbsent(v) /\ v # <<>>

All == <<"A","l","l">>

\* idfilterssg/[ID].js
\* slip: the IDs are written in lower case into the paths
getStaticPaths_ID_LowerCase ==
    [paths |-> [i \in DOMAIN store |->
                   [params |-> [ID |-> toLowerCase(store[i].ID)]]],
     fallback |-> FALSE]

getStaticPaths_ID ==
    [paths |-> [i \in DOMAIN store |-> [params |-> [ID |-> store[i].ID]]],
     fallback |-> FALSE]

getStaticProps_ID(context) ==
    [props |-> [student |-> findById(store, context.params.ID)]]

\* gscatchallssg/[[...gendersubject]].js
\* slip: the paths array starts empty, without the root path
getStaticPaths_gendersubject_NoRoot ==
    LET genders == <<<<"m","a","l","e">>, <<"f","e","m","a","l","e">>>>
        subjects == <<<<"P","h","y","s","i","c","s">>,
                      <<"M","a","t","h","e","m","a","t","i","c","s">>,
                      <<"C","o","m","p","u","t","e","r"," ","S","c","i","e","n","c","e">>,
                      <<"M","e","d","i","c","i","n","e">>>>
    IN  [paths |-> [k \in 1..(Len(genders) * Len(subjects)) |->
                     [params |-> [gendersubject |->
                         <<genders[((k - 1) \div Len(subjects)) + 1],
                           subjects[((k - 1) % Len(subjects)) + 1]>>]]],
         fallback |-> FALSE]

getStaticPaths_gendersubject ==
    LET genders == <<<<"m","a","l","e">>, <<"f","e","m","a","l","e">>>>
        subjects == <<<<"P","h","y","s","i","c","s">>,
                      <<"M","a","t","h","e","m","a","t","i","c","s">>,
                      <<"C","o","m","p","u","t","e","r"," ","S","c","i","e","n","c","e">>,
                      <<"M","e","d","i","c","i","n","e">>>>
        \* genders.forEach(gender => subjects.forEach(subject => push))
        pushed == [k \in 1..(Len(genders) * Len(subjects)) |->
                     [params |-> [gendersubject |->
                         <<genders[((k - 1) \div Len(subjects)) + 1],
                           subjects[((k - 1) % Len(subjects)) + 1]>>]]]
    IN  [paths |-> <<[params |-> [gendersubject |-> Undefined]]>> \o pushed,
         fallback |-> FALSE]

\* slip: the subject is taken from the last segment
getStaticProps_gendersubject_LastSegment(context) ==
    LET params == context.params
        gendersubject ==
            IF IsAbsent(params) THEN <<>>
            ELSE IF IsAbsent(params.gendersubject) THEN <<>>
            ELSE params.gendersubject
        gender == IF Len(gendersubject) >= 1 THEN gendersubject[1]
                  ELSE Undefined
        subject == IF Len(gendersubject) >= 1
                   THEN gendersubject[Len(gendersubject)]
                   ELSE Undefined
        byGender == IF IsTruthy(gender) THEN filterByGender(store, gender)
                    ELSE store
        filteredStudents ==
            IF IsTruthy(subject) THEN filterBySubject(byGender, subject)
            ELSE byGender
    IN  [props |-> [students |-> filteredStudents,
                    gender |-> IF IsTruthy(gender) THEN gender ELSE All,
                    subject |-> IF IsTruthy(subject) THEN subject ELSE All]]

getStaticProps_gendersubject(context) ==
    LET params == context.params
        \* params?.gendersubject || []
        gendersubject ==
            IF IsAbsent(params) THEN <<>>
            ELSE IF IsAbsent(params.gendersubject) THEN <<>>
            ELSE params.gendersubject
        gender == IF Len(gendersubject) >= 1 THEN gendersubject[1]
                  ELSE Undefined
        subject == IF Len(gendersubject) >= 2 THEN gendersubject[2]
                   ELSE Undefined
        byGender == IF IsTruthy(gender) THEN filterByGender(store, gender)
                    ELSE store
        filteredStudents ==
            IF IsTruthy(subject) THEN filterBySubject(byGender, subject)
            ELSE byGender
    IN  [props |-> [students |-> filteredStudents,
                    gender |-> IF IsTruthy(gender) THEN gender ELSE All,
                    subject |-> IF IsTruthy(subject) THEN subject ELSE All]]

IdRoute == "idfilterssg"
GenderSubjectRoute == "gscatchallssg"

(* The build and the server, as the README describes them: getStaticPaths  *)
(* runs once, its paths supply the params of one getStaticProps call each, *)
(* and with fallback false a request for a path that was not prerendered   *)
(* is answered 404.  A path is the sequence of its segments.               *)

\* the URL segments below the route that params stand for
PathOf(r, params) ==
    IF r = IdRoute THEN <<params.ID>>
    ELSE IF IsAbsent(params.gendersubject) THEN <<>>
    ELSE params.gendersubject

BuildPaths_ID ==
    /\ route = NoRoute
    /\ route' = IdRoute
    /\ paths' = getStaticPaths_ID
    /\ UNCHANGED <<store, input, result, found, calls, comparisons,
                   pages, response, isrVars, csr, view>>

BuildPaths_gendersubject ==
    /\ route = NoRoute
    /\ route' = GenderSubjectRoute
    /\ paths' = getStaticPaths_gendersubject
    /\ UNCHANGED <<store, input, result, found, calls, comparisons,
                   pages, response, isrVars, csr, view>>

\* the next path of the list is prerendered
BuildPage ==
    /\ route # NoRoute
    /\ Len(pages) < Len(paths.paths)
    /\ LET context == paths.paths[Len(pages) + 1]
       IN  pages' = Append(pages,
               [params |-> context.params,
                result |-> IF route = IdRoute
                           THEN getStaticProps_ID(context)
                           ELSE getStaticProps_gendersubject(context)])
    /\ UNCHANGED <<store, input, result, found, calls, comparisons,
                   route, paths, response, isrVars, csr, view>>

BuildDone == route # NoRoute /\ Len(pages) = Len(paths.paths)

Request(segments) ==
    /\ BuildDone
    /\ paths.fallback = FALSE
    /\ response' =
           IF \E i \in DOMAIN pages :
                  PathOf(route, pages[i].params) = segments
           THEN LET i == CHOOSE i \in DOMAIN pages :
                             PathOf(route, pages[i].params) = segments
                IN  [path |-> segments, status |-> 200,
                     props |-> pages[i].result.props]
           ELSE [path |-> segments, status |-> 404]
    /\ UNCHANGED <<store, input, result, found, calls, comparisons,
                   route, paths, pages, isrVars, csr, view>>

(* Requests: every ID the lookups try; the root of the catch-all route,    *)
(* every gender alone, every gender with every subject, and paths with an  *)
(* unknown or differently spelled segment.                                 *)

RequestedGenders == <<<<"m","a","l","e">>, <<"f","e","m","a","l","e">>, <<"F","E","M","A","L","E">>>>

RequestedSubjects ==
    <<<<"P","h","y","s","i","c","s">>,
      <<"M","a","t","h","e","m","a","t","i","c","s">>,
      <<"C","o","m","p","u","t","e","r"," ","S","c","i","e","n","c","e">>,
      <<"M","e","d","i","c","i","n","e">>,
      <<"p","h","y","s","i","c","s">>>>

RequestedPaths ==
    IF route = IdRoute THEN {<<id>> : id \in IdArgs(store)}
    ELSE {<<>>}
          \cup {<<RequestedGenders[g]>> : g \in DOMAIN RequestedGenders}
          \cup {<<RequestedGenders[g], RequestedSubjects[s]>> :
                    g \in DOMAIN RequestedGenders,
                    s \in DOMAIN RequestedSubjects}

PagesNext ==
    \/ BuildPaths_ID
    \/ BuildPaths_gendersubject
    \/ BuildPage
    \/ \E segments \in RequestedPaths : Request(segments)

PagesSpec == StoreInit /\ [][PagesNext]_vars

(* The site as a whole: a caller making calls, or a route being built and  *)
(* served.                                                                 *)

SiteNext ==
    \/ route = NoRoute /\ Next
    \/ calls = <<>> /\ input = store /\ PagesNext

SiteSpec == Init /\ [][SiteNext]_vars

(* getStaticProps of the catch-all route on its own, given any params: no  *)
(* params, no gendersubject, and arrays of up to three segments, known     *)
(* ones, ones in another letter case and unknown ones.                     *)

SegmentGenders ==
    {<<"m","a","l","e">>, <<"f","e","m","a","l","e">>, <<"F","E","M","A","L","E">>,
     <<"M","a","l","e">>, <<"x">>}

SegmentSubjects ==
    {<<"P","h","y","s","i","c","s">>,
     <<"M","a","t","h","e","m","a","t","i","c","s">>,
     <<"C","o","m","p","u","t","e","r"," ","S","c","i","e","n","c","e">>,
     <<"M","e","d","i","c","i","n","e">>,
     <<"p","h","y","s","i","c","s">>,
     <<"L","a","w">>}

SegmentExtras ==
    {<<"R","o","m","e">>, <<"P","h","y","s","i","c","s">>,
     <<"m","a","l","e">>}

SegmentArrays ==
    {<<>>}
        \cup {<<g>> : g \in SegmentGenders}
        \cup {<<g, s>> : g \in SegmentGenders, s \in SegmentSubjects}
        \cup {<<g, s, x>> : g \in SegmentGenders, s \in SegmentSubjects,
                              x \in SegmentExtras}

\* one call; pages holds the params and what was returned for them
RunGetStaticProps(context) ==
    /\ route \in {NoRoute, GenderSubjectRoute}
    /\ paths = NotBuilt
    /\ route' = GenderSubjectRoute
    /\ pages' = <<[params |-> context.params,
                   result |-> getStaticProps_gendersubject(context)]>>
    /\ UNCHANGED <<store, input, result, found, calls, comparisons,
                   paths, response, isrVars, csr, view>>

PropsNext ==
    \/ RunGetStaticProps([params |-> Undefined])
    \/ \E absent \in {Undefined, Null} :
          RunGetStaticProps([params |-> [gendersubject |-> absent]])
    \/ \E array \in SegmentArrays :
          RunGetStaticProps([params |-> [gendersubject |-> array]])

PropsSpec == StoreInit /\ [][PropsNext]_vars

---------------------------------------------------------------------------
(* The incrementally regenerated page, pages/students/isr.js.  The build   *)
(* generates the page once.  In production the server answers every        *)
(* request with the cached page; a request that finds the cached page      *)
(* older than revalidate seconds is still answered with it and makes the   *)
(* server regenerate the page in the background, for the requests after.   *)

\* the longest time the clock is followed
MaxTime == 150

\* the steps the clock makes between two events, in seconds
Delays == {30, 59, 60, 61}

revalidate == 60

Digits == <<"0", "1", "2", "3", "4", "5", "6", "7", "8", "9">>

\* Date.prototype.toLocaleString of the clock reading t: the time of day to
\* the second, here minutes and seconds since the build started (the date
\* and the hour stay what they are as long as the clock is followed)
toLocaleString_SecondsOnly(t) ==
    <<":", Digits[((t % 60) \div 10) + 1], Digits[(t % 10) + 1]>>

toLocaleString(t) ==
    <<Digits[((t \div 60) \div 10) + 1], Digits[((t \div 60) % 10) + 1],
      ":", Digits[((t % 60) \div 10) + 1], Digits[(t % 10) + 1]>>

\* isr.js
getStaticProps_isr ==
    LET generatedAt == toLocaleString(now)
    IN  [props |-> [students |-> store, generatedAt |-> generatedAt],
         revalidate |-> revalidate]

\* the cache entry of a generation made now
Generated == [result |-> getStaticProps_isr, generatedTime |-> now]

IsrPath == "/students/isr"

\* next build
BuildIsr ==
    /\ isrPage = NotBuilt
    /\ isrPage' = Generated
    /\ generations' = generations \cup {now}
    /\ UNCHANGED <<store, input, result, found, calls, comparisons,
                   route, paths, pages, response, now, regenerating,
                   csr, view>>

Tick(d) ==
    /\ now + d <= MaxTime
    /\ now' = now + d
    /\ UNCHANGED <<store, input, result, found, calls, comparisons,
                   route, paths, pages, response, isrPage, regenerating,
                   generations, csr, view>>

\* whether a cached page of that age is due for regeneration; the page is
\* fresh before revalidate seconds have passed and stale after, and in the
\* second in which they pass it is either
Stale(age) ==
    IF age < revalidate THEN {FALSE}
    ELSE IF age > revalidate THEN {TRUE}
    ELSE {FALSE, TRUE}

\* development mode: getStaticProps runs on every request
RequestIsr_RegenerateOnRequest ==
    /\ isrPage # NotBuilt
    /\ isrPage' = Generated
    /\ generations' = generations \cup {now}
    /\ response' = [path |-> IsrPath, status |-> 200,
                    props |-> isrPage'.result.props,
                    servedAt |-> now, seen |-> generations']
    /\ UNCHANGED <<store, input, result, found, calls, comparisons,
                   route, paths, pages, now, regenerating, csr, view>>

\* a request in production; the response notes when it was served and the
\* generations made until then
RequestIsr ==
    /\ isrPage # NotBuilt
    /\ response' = [path |-> IsrPath, status |-> 200,
                    props |-> isrPage.result.props,
                    servedAt |-> now, seen |-> generations]
    /\ \E stale \in Stale(now - isrPage.generatedTime) :
          regenerating' = (regenerating \/ stale)
    /\ UNCHANGED <<store, input, result, found, calls, comparisons,
                   route, paths, pages, now, isrPage, generations,
                   csr, view>>

\* the regeneration in the background: getStaticProps is rerun
Regenerate ==
    /\ regenerating
    /\ isrPage' = Generated
    /\ generations' = generations \cup {now}
    /\ regenerating' = FALSE
    /\ UNCHANGED <<store, input, result, found, calls, comparisons,
                   route, paths, pages, response, now, csr, view>>

IsrNext ==
    \/ BuildIsr
    \/ \E d \in Delays : Tick(d)
    \/ RequestIsr
    \/ Regenerate

IsrSpec == StoreInit /\ [][IsrNext]_vars

---------------------------------------------------------------------------
(* The display components, components/StudentList.js and                   *)
(* components/StudentCard.js, and the pages that use them.  What a         *)
(* component renders is a record of the texts and links it shows; a        *)
(* TypeError thrown while rendering is the record Thrown.                  *)

Space == <<" ">>
Slash == <<"/">>

NoStudentFound == [tag |-> "p", text |-> "No student found."]
NoStudentsFound == [tag |-> "p", text |-> "No students found."]
Thrown == [error |-> "TypeError"]

\* linkBase = "/students/idfilterssr", the default of both components
DefaultLinkBase == <<"/","s","t","u","d","e","n","t","s","/","i","d","f","i","l","t","e","r","s","s","r">>

\* linkBase="/students/idfilterssg", as the prerendered pages pass it
SsgLinkBase == <<"/","s","t","u","d","e","n","t","s","/","i","d","f","i","l","t","e","r","s","s","g">>

\* what the card shows of a student
CardOf(student, linkBase) ==
    [tag |-> "div",
     heading |-> student.firstname \o Space \o student.lastname,
     gender |-> student.gender,
     birthdate |-> student.birthdate,
     studysubject |-> student.studysubject,
     city |-> student.city,
     ID |-> student.ID,
     links |-> <<[href |-> linkBase \o Slash \o student.ID,
                  text |-> "View Details"]>>]

\* slip: no test of the student before its fields are read
StudentCard_NoGuard(student, linkBase) ==
    IF IsAbsent(student) THEN Thrown ELSE CardOf(student, linkBase)

StudentCard(student, linkBase) ==
    IF IsAbsent(student) THEN NoStudentFound
    ELSE CardOf(student, linkBase)

\* what the grid shows of a list that is not empty
\* slip: the link is built from the lower-cased ID
GridOf_LowerCaseId(list, linkBase) ==
    [tag |-> "div",
     heading |-> "Matching Students",
     links |-> [i \in DOMAIN list |->
                  [key |-> list[i].ID,
                   href |-> linkBase \o Slash \o toLowerCase(list[i].ID),
                   text |-> <<list[i].firstname, list[i].lastname,
                              list[i].ID>>]]]

GridOf(list, linkBase) ==
    [tag |-> "div",
     heading |-> "Matching Students",
     links |-> [i \in DOMAIN list |->
                  [key |-> list[i].ID,
                   href |-> linkBase \o Slash \o list[i].ID,
                   text |-> <<list[i].firstname, list[i].lastname,
                              list[i].ID>>]]]

\* slip: only the length is tested
StudentList_LengthOnly(list, linkBase) ==
    IF IsAbsent(list) THEN Thrown
    ELSE IF Len(list) = 0 THEN NoStudentsFound
    ELSE GridOf(list, linkBase)

StudentList(list, linkBase) ==
    IF IsAbsent(list) THEN NoStudentsFound
    ELSE IF Len(list) = 0 THEN NoStudentsFound
    ELSE GridOf(list, linkBase)

\* idfilterssg/[ID].js
StudentPage(props) ==
    [heading |-> "Student Details (SSG)",
     body |-> StudentCard(props.student, SsgLinkBase)]

\* gscatchallssg/[[...gendersubject]].js
GenderSubjectCatchAllPage(props) ==
    [heading |-> "Students by Gender and Subject (SSG, Catch-All)",
     gender |-> props.gender,
     subject |-> props.subject,
     body |-> StudentList(props.students, SsgLinkBase)]

---------------------------------------------------------------------------
(* The client-side rendered page, pages/students/csr.js.  React renders    *)
(* the component after every change of its state, and runs the effect      *)
(* after the render in which gender or subject changed; it runs a pending  *)
(* effect before it handles the next change.  Every state of csr is a      *)
(* state the page has rendered, and view is that rendering.                *)

\* <option value=""> of both dropdowns: All
EmptyString == <<>>

GenderOptions == {EmptyString, <<"m","a","l","e">>, <<"f","e","m","a","l","e">>}

\* slip: the value of an option is not the subject as the store spells it
SubjectOptions_Misspelt ==
    {EmptyString,
     <<"P","h","y","s","i","c","s">>,
     <<"M","a","t","h","e","m","a","t","i","c","s">>,
     <<"C","o","m","p","u","t","e","r","S","c","i","e","n","c","e">>,
     <<"M","e","d","i","c","i","n","e">>}

SubjectOptions ==
    {EmptyString,
     <<"P","h","y","s","i","c","s">>,
     <<"M","a","t","h","e","m","a","t","i","c","s">>,
     <<"C","o","m","p","u","t","e","r"," ","S","c","i","e","n","c","e">>,
     <<"M","e","d","i","c","i","n","e">>}

\* what CSRPage returns for its state
CSRPage(state) ==
    [heading |-> "Student Directory (CSR)",
     gender |-> state.gender,
     subject |-> state.subject,
     body |-> StudentList(state.filteredStudents, DefaultLinkBase)]

\* the first render: the three useState calls; the effect is scheduled
MountCsr ==
    /\ csr = NotMounted
    /\ csr' = [gender |-> EmptyString, subject |-> EmptyString,
               filteredStudents |-> store, effectPending |-> TRUE]
    /\ view' = CSRPage(csr')
    /\ UNCHANGED <<store, input, result, found, calls, comparisons,
                   route, paths, pages, response, isrVars>>

\* onChange of the gender dropdown: setGender(e.target.value)
SetGender(value) ==
    /\ csr # NotMounted
    /\ ~csr.effectPending
    /\ csr' = [csr EXCEPT !.gender = value,
                          !.effectPending = (value # csr.gender)]
    /\ view' = CSRPage(csr')
    /\ UNCHANGED <<store, input, result, found, calls, comparisons,
                   route, paths, pages, response, isrVars>>

\* onChange of the subject dropdown: setSubject(e.target.value)
SetSubject(value) ==
    /\ csr # NotMounted
    /\ ~csr.effectPending
    /\ csr' = [csr EXCEPT !.subject = value,
                          !.effectPending = (value # csr.subject)]
    /\ view' = CSRPage(csr')
    /\ UNCHANGED <<store, input, result, found, calls, comparisons,
                   route, paths, pages, response, isrVars>>

\* slip: the effect goes on from the list shown, let result = filteredStudents
RunEffect_FromFiltered ==
    /\ csr # NotMounted
    /\ csr.effectPending
    /\ LET byGender ==
               IF csr.gender # EmptyString
               THEN filterByGender(csr.filteredStudents, csr.gender)
               ELSE csr.filteredStudents
           bySubject ==
               IF csr.subject # EmptyString
               THEN filterBySubject(byGender, csr.subject)
               ELSE byGender
       IN  csr' = [csr EXCEPT !.filteredStudents = bySubject,
                              !.effectPending = FALSE]
    /\ view' = CSRPage(csr')
    /\ UNCHANGED <<store, input, result, found, calls, comparisons,
                   route, paths, pages, response, isrVars>>

\* the effect: let result = students; if (gender) ...; if (subject) ...;
\* setFilteredStudents(result)
RunEffect ==
    /\ csr # NotMounted
    /\ csr.effectPending
    /\ LET byGender ==
               IF csr.gender # EmptyString
               THEN filterByGender(store, csr.gender)
               ELSE store
           bySubject ==
               IF csr.subject # EmptyString
               THEN filterBySubject(byGender, csr.subject)
               ELSE byGender
       IN  csr' = [csr EXCEPT !.filteredStudents = bySubject,
                              !.effectPending = FALSE]
    /\ view' = CSRPage(csr')
    /\ UNCHANGED <<store, input, result, found, calls, comparisons,
                   route, paths, pages, response, isrVars>>

CsrNext ==
    \/ MountCsr
    \/ \E value \in GenderOptions : SetGender(value)
    \/ \E value \in SubjectOptions : SetSubject(value)
    \/ RunEffect

CsrSpec == StoreInit /\ [][CsrNext]_vars

(* The components rendered with what the caller holds, or with an absent   *)
(* value; view notes the component, what it was given and what it          *)
(* rendered.                                                               *)

\* StudentPage rendered with the student a lookup returned
RenderStudentPage ==
    /\ found # NotCalled
    /\ view' = [component |-> "StudentPage", student |-> found,
                output |-> StudentPage([student |-> found])]
    /\ UNCHANGED <<store, input, result, found, calls, comparisons,
                   route, paths, pages, response, isrVars, csr>>

RenderStudentCard(student) ==
    /\ view' = [component |-> "StudentCard", student |-> student,
                output |-> StudentCard(student, DefaultLinkBase)]
    /\ UNCHANGED <<store, input, result, found, calls, comparisons,
                   route, paths, pages, response, isrVars, csr>>

RenderStudentList(list) ==
    /\ view' = [component |-> "StudentList", students |-> list,
                output |-> StudentList(list, DefaultLinkBase)]
    /\ UNCHANGED <<store, input, result, found, calls, comparisons,
                   route, paths, pages, response, isrVars, csr>>

RenderNext ==
    \/ \E id \in IdArgs(<<>>) : CallFindById(id)
    \/ \E name \in NameArgs : CallFilterByName(name)
    \/ RenderStudentPage
    \/ \E student \in {Null, Undefined, store[1]} : RenderStudentCard(student)
    \/ RenderStudentList(result)
    \/ \E absent \in {Null, Undefined} : RenderStudentList(absent)

RenderSpec == StoreInit /\ [][RenderNext]_vars

(* Navigation.  The index page offers example links; a served page is      *)
(* rendered by the component of its route; and following a link shown      *)
(* into the route that was built is a request for the path the link names. *)

\* the links of the SSG section of the index page
IndexPage ==
    [heading |-> "Next.js Student Directory",
     links |-> <<[href |-> <<"/","s","t","u","d","e","n","t","s","/","a","l","l">>],
                 [href |-> <<"/","s","t","u","d","e","n","t","s","/","i","d","f","i","l","t","e","r","s","s","g","/","S","0","0","1">>],
                 [href |-> <<"/","s","t","u","d","e","n","t","s","/","g","s","n","e","s","t","e","d","s","s","g","/","m","a","l","e","/","M","a","t","h","e","m","a","t","i","c","s">>],
                 [href |-> <<"/","s","t","u","d","e","n","t","s","/","g","s","c","a","t","c","h","a","l","l","s","s","g">>],
                 [href |-> <<"/","s","t","u","d","e","n","t","s","/","g","s","c","a","t","c","h","a","l","l","s","s","g","/","m","a","l","e","/","M","a","t","h","e","m","a","t","i","c","s">>]>>]

\* the links an element holds; a paragraph holds none
LinksOf(element) ==
    IF "links" \in DOMAIN element THEN element.links ELSE <<>>

\* the pieces of a string between its slashes, an empty piece included
SplitAtSlash(s) ==
    LET cuts == {0} \cup {i \in DOMAIN s : <<s[i]>> = Slash}
                    \cup {Len(s) + 1}
        starts == cuts \ {Len(s) + 1}
        Following(i) == CHOOSE j \in cuts :
                            /\ j > i
                            /\ \A k \in cuts : k > i => j <= k
        Nth(n) == CHOOSE i \in starts :
                      Cardinality({j \in starts : j < i}) = n - 1
    IN  [n \in 1..Cardinality(starts) |->
            SubSeq(s, Nth(n) + 1, Following(Nth(n)) - 1)]

\* the segments of a path: its non-empty pieces
SegmentsOfHref(href) ==
    SelectSeq(SplitAtSlash(href), LAMBDA piece : piece # <<>>)

\* the directory of a route below pages/
RouteDirectory(r) ==
    IF r = IdRoute
    THEN <<<<"s","t","u","d","e","n","t","s">>, <<"i","d","f","i","l","t","e","r","s","s","g">>>>
    ELSE <<<<"s","t","u","d","e","n","t","s">>,
           <<"g","s","c","a","t","c","h","a","l","l","s","s","g">>>>

\* the prerendered dynamic route a link leads into, if any
TargetRoute(href) ==
    LET segments == SegmentsOfHref(href)
        Below(r) == /\ Len(segments) >= 2
                    /\ SubSeq(segments, 1, 2) = RouteDirectory(r)
    IN  IF Below(IdRoute) THEN IdRoute
        ELSE IF Below(GenderSubjectRoute) THEN GenderSubjectRoute
        ELSE NoRoute

\* the segments of a link below the directory of its route
TargetSegments(href) ==
    SubSeq(SegmentsOfHref(href), 3, Len(SegmentsOfHref(href)))

RenderIndexPage ==
    /\ view' = [component |-> "IndexPage", output |-> IndexPage,
                links |-> IndexPage.links]
    /\ UNCHANGED <<store, input, result, found, calls, comparisons,
                   route, paths, pages, response, isrVars, csr>>

\* the page that was served, rendered with the props it was served with
RenderServedPage ==
    /\ response # NoResponse
    /\ response.status = 200
    /\ LET output == IF route = IdRoute THEN StudentPage(response.props)
                     ELSE GenderSubjectCatchAllPage(response.props)
       IN  view' = [component |-> IF route = IdRoute THEN "StudentPage"
                                  ELSE "GenderSubjectCatchAllPage",
                    output |-> output,
                    links |-> LinksOf(output.body)]
    /\ UNCHANGED <<store, input, result, found, calls, comparisons,
                   route, paths, pages, response, isrVars, csr>>

\* a click on the k-th link shown, if it leads into the route built
FollowLink(k) ==
    /\ BuildDone
    /\ paths.fallback = FALSE
    /\ view # NotRendered
    /\ k \in DOMAIN view.links
    /\ TargetRoute(view.links[k].href) = route
    /\ LET segments == TargetSegments(view.links[k].href)
       IN  response' =
               IF \E i \in DOMAIN pages :
                      PathOf(route, pages[i].params) = segments
               THEN LET i == CHOOSE i \in DOMAIN pages :
                                 PathOf(route, pages[i].params) = segments
                    IN  [path |-> segments, status |-> 200,
                         props |-> pages[i].result.props,
                         link |-> view.links[k].href]
               ELSE [path |-> segments, status |-> 404,
                     link |-> view.links[k].href]
    /\ UNCHANGED <<store, input, result, found, calls, comparisons,
                   route, paths, pages, isrVars, csr, view>>

MaxLinks == 40

NavigationNext ==
    \/ BuildPaths_ID
    \/ BuildPaths_gendersubject
    \/ BuildPage
    \/ \E segments \in RequestedPaths : Request(segments)
    \/ RenderIndexPage
    \/ RenderServedPage
    \/ \E k \in 1..MaxLinks : FollowLink(k)

NavigationSpec == StoreInit /\ [][NavigationNext]_vars

---------------------------------------------------------------------------
(* Vocabulary of the properties. *)

Filters == {"filterByCity", "filterBySubject", "filterByGender", "filterByName"}
FieldFilters == {"filterByCity", "filterBySubject", "filterByGender"}

\* the field a one-field filter compares
FieldOf(fn, r) ==
    CASE fn = "filterByCity" -> r.city
      [] fn = "filterBySubject" -> r.studysubject
      [] fn = "filterByGender" -> r.gender

\* the function a logged call names, applied
Apply(fn, list, arg) ==
    CASE fn = "filterByCity" -> filterByCity(list, arg)
      [] fn = "filterBySubject" -> filterBySubject(list, arg)
      [] fn = "filterByGender" -> filterByGender(list, arg)
      [] fn = "filterByName" -> filterByName(list, arg)

Range(s) == {s[i] : i \in DOMAIN s}

Count(s, r) == Cardinality({i \in DOMAIN s : s[i] = r})

EqualIgnoringCase(a, b) == toLowerCase(a) = toLowerCase(b)

\* the logged calls of the filters (a lookup's `out` is no list)
FilterCalls == {k \in DOMAIN calls : calls[k].fn \in Filters}

(* The log only grows, and every call is the last entry of the log in the  *)
(* state that follows it.  A property of the last call (and of the call    *)
(* before it) that holds in every reachable state therefore holds of every *)
(* call (and of every two calls in a row) the caller ever makes.           *)

LastCall == calls[Len(calls)]
PrevCall == calls[Len(calls) - 1]

\* the last call was one of the functions fns
Called(fns) == calls # <<>> /\ LastCall.fn \in fns

\* the last two calls were filters, the second applied to the first's result
FilteredTwice ==
    /\ Len(calls) >= 2
    /\ PrevCall.fn \in Filters
    /\ LastCall.fn \in Filters
    /\ LastCall.in = PrevCall.out

---------------------------------------------------------------------------
\* C1: filterByCity, filterBySubject and filterByGender return exactly the
\* records of their input whose city / studysubject / gender equals the
\* argument when both are lower-cased, and no other record.
C1_FieldFilterSelectsExactlyTheMatches ==
    Called(FieldFilters) =>
        LET c == LastCall
        IN  \A r \in Range(c.in) \cup Range(c.out) :
                r \in Range(c.out) <=>
                    /\ r \in Range(c.in)
                    /\ toLowerCase(FieldOf(c.fn, r)) = toLowerCase(c.arg)

\* a one-field filter kept a record whose field is spelled in another letter
\* case than the argument and dropped a record of its input
C1_Witness ==
    \E k \in DOMAIN calls :
        /\ calls[k].fn \in FieldFilters
        /\ \E r \in Range(calls[k].out) : FieldOf(calls[k].fn, r) # calls[k].arg
        /\ Range(calls[k].in) \ Range(calls[k].out) # {}

\* C2: filterByName returns exactly the records whose firstname or lastname
\* equals the name as a whole string, ignoring letter case; a record whose
\* names only contain the name, or whose "firstname lastname" equals it, is
\* not returned.
NameEquals(r, name) ==
    \/ EqualIgnoringCase(r.firstname, name)
    \/ EqualIgnoringCase(r.lastname, name)

NameOnlyContains(r, name) ==
    /\ ~NameEquals(r, name)
    /\ \/ IsInfix(toLowerCase(name), toLowerCase(r.firstname))
       \/ IsInfix(toLowerCase(name), toLowerCase(r.lastname))

FullNameEquals(r, name) ==
    /\ ~NameEquals(r, name)
    /\ EqualIgnoringCase(r.firstname \o Space \o r.lastname, name)

C2_FilterByNameIsFullStringEquality ==
    Called({"filterByName"}) =>
        LET c == LastCall
        IN  /\ \A r \in Range(c.in) \cup Range(c.out) :
                   r \in Range(c.out) <=>
                       (r \in Range(c.in) /\ NameEquals(r, c.arg))
            /\ \A r \in Range(c.in) :
                   (NameOnlyContains(r, c.arg) \/ FullNameEquals(r, c.arg))
                       => r \notin Range(c.out)

\* one filterByName call kept a record and dropped another whose name only
\* contains the argument, and a filterByName call was given a record whose
\* full name is the argument
C2_Witness ==
    /\ \E k \in DOMAIN calls :
           /\ calls[k].fn = "filterByName"
           /\ calls[k].out # <<>>
           /\ \E r \in Range(calls[k].in) : NameOnlyContains(r, calls[k].arg)
    /\ \E k \in DOMAIN calls :
           /\ calls[k].fn = "filterByName"
           /\ \E r \in Range(calls[k].in) : FullNameEquals(r, calls[k].arg)

\* C3: findById returns the first record in list order whose ID is the id,
\* compared exactly (an ID in another letter case does not match), and null
\* when no record matches.
C3_FindByIdReturnsFirstExactMatch ==
    Called({"findById"}) =>
        LET c == LastCall
            hits == {i \in DOMAIN c.in : c.in[i].ID = c.arg}
        IN  /\ hits = {} => c.out = Null
            /\ hits # {} =>
                   \E i \in hits : /\ \A j \in hits : i <= j
                                   /\ c.out = c.in[i]

\* a lookup passed over a record whose ID differs from the id in letter case
\* only and returned the earlier of two different records carrying the id
C3_Witness ==
    \E k \in DOMAIN calls :
        /\ calls[k].fn = "findById"
        /\ \E h, i, j \in DOMAIN calls[k].in :
               /\ h < i /\ i < j
               /\ calls[k].in[h].ID # calls[k].arg
               /\ EqualIgnoringCase(calls[k].in[h].ID, calls[k].arg)
               /\ calls[k].in[i].ID = calls[k].arg
               /\ calls[k].in[j].ID = calls[k].arg
               /\ calls[k].in[i] # calls[k].in[j]
               /\ calls[k].out = calls[k].in[i]

\* C4: on the store a lookup round-trips: for every record r of the store,
\* findById(students, r.ID) is r itself; findById(students, "S001") is the
\* record of Anna Schmidt.
C4_FindByIdRoundTripsOnStore ==
    (Called({"findById"}) /\ LastCall.in = students) =>
        /\ \A i \in DOMAIN students :
               students[i].ID = LastCall.arg => LastCall.out = students[i]
        /\ LastCall.arg = <<"S","0","0","1">> =>
               /\ LastCall.out.firstname = <<"A","n","n","a">>
               /\ LastCall.out.lastname = <<"S","c","h","m","i","d","t">>

\* the store was asked for "S001" and answered with a record
C4_Witness ==
    \E k \in DOMAIN calls :
        /\ calls[k].fn = "findById"
        /\ calls[k].in = students
        /\ calls[k].arg = <<"S","0","0","1">>
        /\ calls[k].out = students[1]

\* C5: for an id that no record of the store carries (such as "S999"),
\* findById(students, id) is null: the call returns, and what it returns is
\* not undefined.
C5_FindByIdUnknownIdIsNull ==
    ( /\ Called({"findById"})
      /\ LastCall.in = students
      /\ \A i \in DOMAIN students : students[i].ID # LastCall.arg )
        => (LastCall.out = Null /\ LastCall.out # Undefined)

\* the store was asked for "S999"
C5_Witness ==
    \E k \in DOMAIN calls :
        /\ calls[k].fn = "findById"
        /\ calls[k].in = students
        /\ calls[k].arg = <<"S","9","9","9">>
        /\ found = Null

\* C6: every filter returns a subsequence of its input: the surviving
\* records keep their relative order and none occurs more often than in the
\* input.
RECURSIVE IsSubsequence(_, _)
IsSubsequence(a, b) ==
    IF a = <<>> THEN TRUE
    ELSE IF b = <<>> THEN FALSE
    ELSE IF Head(a) = Head(b) THEN IsSubsequence(Tail(a), Tail(b))
    ELSE IsSubsequence(a, Tail(b))

C6_FilterResultIsSubsequence ==
    Called(Filters) =>
        /\ IsSubsequence(LastCall.out, LastCall.in)
        /\ \A r \in Range(LastCall.out) :
               Count(LastCall.out, r) <= Count(LastCall.in, r)

\* a filter dropped a record and kept at least two different ones
C6_Witness ==
    \E k \in FilterCalls :
        /\ Len(calls[k].out) < Len(calls[k].in)
        /\ \E i, j \in DOMAIN calls[k].out : calls[k].out[i] # calls[k].out[j]

\* C7: filterBySubject(filterByGender(students, g), s) is, in store order,
\* exactly the records of the store whose gender matches g and whose
\* studysubject matches s.
C7_GenderThenSubjectIsConjunction ==
    ( /\ FilteredTwice
      /\ PrevCall.fn = "filterByGender"
      /\ PrevCall.in = students
      /\ LastCall.fn = "filterBySubject" )
        => LastCall.out =
               SelectSeq(students, LAMBDA r :
                   /\ EqualIgnoringCase(r.gender, PrevCall.arg)
                   /\ EqualIgnoringCase(r.studysubject, LastCall.arg))

\* the store was filtered by "male", then by "Medicine", and records remain
C7_Witness ==
    /\ Len(calls) = 2
    /\ calls[1].fn = "filterByGender" /\ calls[1].in = students
    /\ calls[1].arg = <<"m","a","l","e">>
    /\ calls[2].fn = "filterBySubject" /\ calls[2].in = calls[1].out
    /\ calls[2].arg = <<"M","e","d","i","c","i","n","e">>
    /\ calls[2].out # <<>>
    /\ Len(calls[2].out) < Len(calls[1].out)

\* C8: filters commute: two filters applied one after the other give the
\* same list, in the same order, as the two applied in the other order.
C8_FiltersCommute ==
    FilteredTwice =>
        LastCall.out =
            Apply(PrevCall.fn,
                  Apply(LastCall.fn, PrevCall.in, LastCall.arg),
                  PrevCall.arg)

\* two different filters ran in a row, each dropped a record, one remains
C8_Witness ==
    \E k \in FilterCalls :
        /\ k + 1 \in FilterCalls
        /\ calls[k + 1].fn # calls[k].fn
        /\ calls[k + 1].in = calls[k].out
        /\ Len(calls[k].out) < Len(calls[k].in)
        /\ Len(calls[k + 1].out) < Len(calls[k + 1].in)
        /\ calls[k + 1].out # <<>>

\* C9: filters are idempotent: a filter applied to its own result with the
\* same argument returns that result.
C9_FilterIdempotent ==
    ( /\ FilteredTwice
      /\ LastCall.fn = PrevCall.fn
      /\ LastCall.arg = PrevCall.arg )
        => LastCall.out = PrevCall.out

\* a filter ran twice in a row with one argument; the first run dropped a
\* record and kept at least two different ones
C9_Witness ==
    \E k \in FilterCalls :
        /\ k + 1 \in FilterCalls
        /\ calls[k + 1].fn = calls[k].fn
        /\ calls[k + 1].arg = calls[k].arg
        /\ calls[k + 1].in = calls[k].out
        /\ Len(calls[k].out) < Len(calls[k].in)
        /\ \E i, j \in DOMAIN calls[k].out : calls[k].out[i] # calls[k].out[j]

\* C10: the letter case of the argument does not matter: a filter returns
\* the same records in the same order for any two arguments that differ in
\* letter case only.
\* a letter in its two cases, either way round
CasePairs ==
    {<<UpperUnits[i], LowerUnits[i]>> : i \in DOMAIN UpperUnits}
        \cup {<<LowerUnits[i], UpperUnits[i]>> : i \in DOMAIN UpperUnits}

SameLetter(x, y) == x = y \/ <<x, y>> \in CasePairs

DifferInCaseOnly(a, b) ==
    /\ a # b
    /\ Len(a) = Len(b)
    /\ \A i \in DOMAIN a : SameLetter(a[i], b[i])

\* the arguments a logged one is compared with, besides its lower-case form
AllArgs == CityArgs \cup SubjectArgs \cup GenderArgs \cup NameArgs

C10_ArgumentCaseIsIgnored ==
    Called(Filters) =>
        /\ \A other \in AllArgs :
               DifferInCaseOnly(LastCall.arg, other) =>
                   Apply(LastCall.fn, LastCall.in, other) = LastCall.out
        /\ Apply(LastCall.fn, LastCall.in, toLowerCase(LastCall.arg))
               = LastCall.out

\* filterByGender(students, "FEMALE") returned records, and "female" is among
\* the arguments it is compared with
C10_Witness ==
    \E k \in FilterCalls :
        /\ calls[k].fn = "filterByGender"
        /\ calls[k].in = students
        /\ calls[k].arg = <<"F","E","M","A","L","E">>
        /\ calls[k].out # <<>>
        /\ \E other \in AllArgs : DifferInCaseOnly(calls[k].arg, other)

\* C11: the filters are total and degrade to the empty list: a call on an
\* empty list, or on a list none of whose records matches the argument
\* (a city no record has), returns the empty list.
NoRecordMatches(c) ==
    \A i \in DOMAIN c.in :
        IF c.fn = "filterByName"
        THEN ~NameEquals(c.in[i], c.arg)
        ELSE ~EqualIgnoringCase(FieldOf(c.fn, c.in[i]), c.arg)

C11_NoMatchGivesEmptyList ==
    (Called(Filters) /\ (LastCall.in = <<>> \/ NoRecordMatches(LastCall)))
        => LastCall.out = <<>>

\* the store was filtered by a city none of its records has, and a filter
\* was then applied to the empty result
C11_Witness ==
    /\ Len(calls) = 2
    /\ calls[1].fn = "filterByCity"
    /\ calls[1].in = students
    /\ calls[1].arg = <<"O","s","l","o">>
    /\ calls[1].out = <<>>
    /\ calls[2].fn \in Filters
    /\ calls[2].in = <<>>
    /\ calls[2].out = <<>>

\* C12: every record of the store is found by filtering the store on its
\* own city, and likewise on its own subject, gender, firstname or lastname.
IsOwnValue(fn, r, arg) ==
    \/ fn = "filterByCity" /\ arg = r.city
    \/ fn = "filterBySubject" /\ arg = r.studysubject
    \/ fn = "filterByGender" /\ arg = r.gender
    \/ fn = "filterByName" /\ arg \in {r.firstname, r.lastname}

C12_RecordFoundByOwnValues ==
    (Called(Filters) /\ LastCall.in = students) =>
        \A i \in DOMAIN students :
            IsOwnValue(LastCall.fn, students[i], LastCall.arg)
                => students[i] \in Range(LastCall.out)

\* the store was filtered by the city of its last record, which is not the
\* first record of that city, and the last record is in the result
C12_Witness ==
    /\ Called({"filterByCity"})
    /\ LastCall.in = students
    /\ LastCall.arg = students[Len(students)].city
    /\ students[Len(students)] \in Range(LastCall.out)
    /\ LastCall.out[1] # students[Len(students)]

---------------------------------------------------------------------------
(* C13: no operation writes the store or the list it is passed.  Whatever  *)
(* calls were made and whatever route was built and served, the store is   *)
(* the 40 records of the source, and the list the caller passed to its     *)
(* first call is still the list it passed.                                 *)

---------------------------------------------------------------------------
(* C14: the store holds exactly 40 records; the ID of the i-th record is   *)
(* "S" followed by i written with three digits, so the IDs run from S001   *)
(* to S040 in ascending order and no two records share an ID.              *)

DigitValue(c) == (CHOOSE k \in DOMAIN Digits : Digits[k] = c) - 1

\* "S" and the three-digit decimal form of i
IdOfIndex(i) ==
    <<"S", Digits[(i \div 100) + 1], Digits[((i \div 10) % 10) + 1],
      Digits[(i % 10) + 1]>>

\* the number an ID of that form carries
NumberOfId(id) ==
    100 * DigitValue(id[2]) + 10 * DigitValue(id[3]) + DigitValue(id[4])

C14_StoreHasFortyAscendingDistinctIds ==
    /\ Len(store) = 40
    /\ \A i \in DOMAIN store : store[i].ID = IdOfIndex(i)
    /\ \A i \in DOMAIN store : i < Len(store) =>
           NumberOfId(store[i].ID) < NumberOfId(store[i + 1].ID)
    /\ \A i, j \in DOMAIN store : i # j => store[i].ID # store[j].ID

\* the last record of the store was looked up by its ID, S040, and found
C14_Witness ==
    /\ Called({"findById"})
    /\ LastCall.in = store
    /\ LastCall.arg = IdOfIndex(40)
    /\ found = store[Len(store)]
    /\ findByIdComparisons(store, LastCall.arg) = 40

---------------------------------------------------------------------------
(* C15: history independence under interleaving.  However the calls of     *)
(* several callers interleave, a call returns what the function returns    *)
(* for its input and argument alone, whatever was called before; and a     *)
(* call with the operation, argument and input of an earlier call returns  *)
(* what the earlier call returned.                                         *)

\* the value of the call when it is the only call ever made
Alone(call) ==
    IF call.fn = "findById" THEN findById(call.in, call.arg)
    ELSE Apply(call.fn, call.in, call.arg)

SameCall(a, b) == a.fn = b.fn /\ a.arg = b.arg /\ a.in = b.in

---------------------------------------------------------------------------
(* C16: every filter call on the store ends after one test per record.  A  *)
(* one-field filter makes one comparison per record, at most 40 on the     *)
(* store.  filterByName makes one or two per record, the second when the   *)
(* firstname differs from the argument, at most 80 on the store.           *)

FilteredStore == Called(Filters) /\ LastCall.in = store

\* as stated: at most 40 comparisons for each of the four filters
C16_AtMostFortyComparisons ==
    FilteredStore => comparisons <= 40

C16_ComparisonsBoundedByStoreSize ==
    FilteredStore =>
        /\ LastCall.fn \in FieldFilters => comparisons = Len(store)
        /\ LastCall.fn = "filterByName" =>
               /\ comparisons >= Len(store)
               /\ comparisons <= 2 * Len(store)
        /\ Len(store) = 40

\* filterByName on the store with a lastname no firstname equals: each of
\* the 40 records costs two comparisons
C16_Witness ==
    /\ FilteredStore
    /\ LastCall.fn = "filterByName"
    /\ LastCall.arg = <<"F","i","s","c","h","e","r">>
    /\ Len(LastCall.out) = 2
    /\ comparisons = 80

---------------------------------------------------------------------------
(* C17: vocabulary and distribution of the store.  Every gender is male or *)
(* female, 20 records each; every studysubject is one of four, 10 records  *)
(* each, 5 male and 5 female; every city is one of six, 6 or 7 records     *)
(* each.  Hence filtering the store by a gender and the result by a        *)
(* subject gives exactly 5 records, for each of the 8 pairs.               *)

KnownGenders == {<<"m","a","l","e">>, <<"f","e","m","a","l","e">>}

KnownSubjects ==
    {<<"P","h","y","s","i","c","s">>,
     <<"M","a","t","h","e","m","a","t","i","c","s">>,
     <<"C","o","m","p","u","t","e","r"," ","S","c","i","e","n","c","e">>,
     <<"M","e","d","i","c","i","n","e">>}

KnownCities ==
    {<<"M","u","n","i","c","h">>,
     <<"V","i","e","n","n","a">>,
     <<"P","r","a","g","u","e">>,
     <<"M","a","d","r","i","d">>,
     <<"P","a","r","i","s">>,
     <<"R","o","m","e">>}

\* how many records of the store satisfy P
CountWhere(P(_)) == Cardinality({i \in DOMAIN store : P(store[i])})

GenderThenSubjectOfStore ==
    /\ FilteredTwice
    /\ PrevCall.fn = "filterByGender"
    /\ PrevCall.in = store
    /\ PrevCall.arg \in KnownGenders
    /\ LastCall.fn = "filterBySubject"
    /\ LastCall.arg \in KnownSubjects

C17_StoreVocabularyAndDistribution ==
    /\ \A i \in DOMAIN store :
          /\ store[i].gender \in KnownGenders
          /\ store[i].studysubject \in KnownSubjects
          /\ store[i].city \in KnownCities
    /\ \A g \in KnownGenders :
          CountWhere(LAMBDA r : r.gender = g) = 20
    /\ \A s \in KnownSubjects :
          /\ CountWhere(LAMBDA r : r.studysubject = s) = 10
          /\ \A g \in KnownGenders :
                CountWhere(LAMBDA r : r.studysubject = s /\ r.gender = g) = 5
    /\ \A c \in KnownCities :
          CountWhere(LAMBDA r : r.city = c) \in {6, 7}
    /\ GenderThenSubjectOfStore => Len(LastCall.out) = 5

\* the store filtered by female and then by Medicine: five records
C17_Witness ==
    /\ GenderThenSubjectOfStore
    /\ PrevCall.arg = <<"f","e","m","a","l","e">>
    /\ LastCall.arg = <<"M","e","d","i","c","i","n","e">>
    /\ Len(PrevCall.out) = 20
    /\ Len(LastCall.out) = 5
    /\ \A i \in DOMAIN LastCall.out :
          /\ LastCall.out[i].gender = PrevCall.arg
          /\ LastCall.out[i].studysubject = LastCall.arg

---------------------------------------------------------------------------
(* C18: the single-student route prerenders all 40 IDs.  getStaticPaths of *)
(* idfilterssg/[ID] returns one path per store record, in store order,     *)
(* with no path twice and fallback false; and for every path the build has *)
(* given to getStaticProps, the student it returned is not null and has    *)
(* the ID of the params.                                                   *)

C18_EveryIdIsPrerendered ==
    route = IdRoute =>
        /\ Len(paths.paths) = Len(store)
        /\ Len(paths.paths) = 40
        /\ \A i \in DOMAIN paths.paths :
               paths.paths[i].params.ID = store[i].ID
        /\ \A i, j \in DOMAIN paths.paths :
               i # j => paths.paths[i].params # paths.paths[j].params
        /\ paths.fallback = FALSE
        /\ \A k \in DOMAIN pages :
               /\ pages[k].params = paths.paths[k].params
               /\ pages[k].result.props.student # Null
               /\ pages[k].result.props.student = store[k]
               /\ pages[k].result.props.student.ID = pages[k].params.ID

\* all 40 pages are built, and the last one, S040, was requested and served
C18_Witness ==
    /\ route = IdRoute
    /\ BuildDone
    /\ Len(pages) = 40
    /\ response # NoResponse
    /\ response.path = <<store[40].ID>>
    /\ response.status = 200
    /\ response.props.student = store[40]

---------------------------------------------------------------------------
(* C19: getStaticPaths of the catch-all route returns exactly 9 paths with *)
(* fallback false: first the root path, whose gendersubject is undefined,  *)
(* then one path [gender, subject] for each of the 2 genders and the 4     *)
(* subjects; no path occurs twice.                                         *)

\* the segments of the k-th path of the list
PathAt(k) == PathOf(route, paths.paths[k].params)

C19_CatchAllHasNinePaths ==
    route = GenderSubjectRoute =>
        /\ Len(paths.paths) = 9
        /\ paths.fallback = FALSE
        /\ IsAbsent(paths.paths[1].params.gendersubject)
        /\ paths.paths[1].params.gendersubject = Undefined
        /\ {PathAt(k) : k \in 2..Len(paths.paths)}
               = {<<g, s>> : g \in KnownGenders, s \in KnownSubjects}
        /\ \A i, j \in DOMAIN paths.paths : i # j => PathAt(i) # PathAt(j)

\* the nine pages are built; the last path, female with Medicine, was
\* requested and served with its five students
C19_Witness ==
    /\ route = GenderSubjectRoute
    /\ BuildDone
    /\ Len(pages) = 9
    /\ response # NoResponse
    /\ response.path = PathAt(9)
    /\ response.path = <<<<"f","e","m","a","l","e">>, <<"M","e","d","i","c","i","n","e">>>>
    /\ response.status = 200
    /\ Len(response.props.students) = 5

---------------------------------------------------------------------------
(* C20: the catch-all route serves a prerendered page for the root path,   *)
(* for every path that is a known gender alone, and for every path of a    *)
(* known gender and a known subject: such a request is not answered 404,   *)
(* and the page lists exactly the students matching the segments.          *)

OptionalPaths ==
    {<<>>}
        \cup {<<g>> : g \in KnownGenders}
        \cup {<<g, s>> : g \in KnownGenders, s \in KnownSubjects}

\* the records of the store that match the segments of a path
Matching(segments) ==
    SelectSeq(store,
        LAMBDA r :
            /\ Len(segments) >= 1 => r.gender = segments[1]
            /\ Len(segments) >= 2 => r.studysubject = segments[2])

C20_OptionalPathsArePrerendered ==
    (/\ route = GenderSubjectRoute
     /\ response # NoResponse
     /\ response.path \in OptionalPaths) =>
        /\ response.status = 200
        /\ response.props.students = Matching(response.path)

\* what the code does: a gender alone is answered 404
C20_GenderOnlyIsNotFound ==
    (/\ route = GenderSubjectRoute
     /\ response # NoResponse) =>
        /\ Len(response.path) = 1 => response.status = 404
        /\ (response.path \in OptionalPaths /\ Len(response.path) # 1) =>
               /\ response.status = 200
               /\ response.props.students = Matching(response.path)

C20_Witness ==
    /\ route = GenderSubjectRoute
    /\ response # NoResponse
    /\ response.path = <<<<"m","a","l","e">>>>
    /\ response.status = 404

---------------------------------------------------------------------------
(* C21: the caching window of /students/isr.  The page is generated by     *)
(* getStaticProps with revalidate 60 and all 40 students.  A request       *)
(* served less than 60 seconds after a generation shows the generatedAt    *)
(* of that generation, and no generation is made less than 60 seconds      *)
(* after another.                                                          *)

IsrServed == response # NoResponse /\ "servedAt" \in DOMAIN response

\* the latest of a non-empty set of times
Latest(times) == CHOOSE g \in times : \A h \in times : h <= g

C21_SameTimestampWithinInterval ==
    /\ isrPage # NotBuilt =>
          /\ isrPage.result.revalidate = 60
          /\ isrPage.result.props.students = store
          /\ Len(isrPage.result.props.students) = 40
          /\ isrPage.result.props.generatedAt
                 = toLocaleString(isrPage.generatedTime)
    /\ IsrServed =>
          \A g \in response.seen :
              (g <= response.servedAt /\ response.servedAt - g < 60) =>
                  response.props.generatedAt = toLocaleString(g)
    /\ \A g, h \in generations : g < h => h - g >= 60

\* the page was regenerated, and a request 59 seconds later is served the
\* page of that regeneration
C21_Witness ==
    /\ IsrServed
    /\ Cardinality(response.seen) = 2
    /\ response.servedAt - Latest(response.seen) = 59
    /\ response.props.generatedAt = toLocaleString(Latest(response.seen))
    /\ Len(response.props.students) = 40

---------------------------------------------------------------------------
(* C22: regeneration of /students/isr.  Once 60 seconds have passed since  *)
(* the last generation, a request makes the server regenerate the page in  *)
(* the background; that request is still served the cached page with the   *)
(* old generatedAt, and a refresh served after the regeneration shows a    *)
(* generatedAt that differs from that of every earlier generation.         *)

---------------------------------------------------------------------------
(* C23: the CSR page converges.  The page starts with no gender, no        *)
(* subject and all 40 students.  After any selections, when no effect is   *)
(* pending, the list is the store filtered by the selected gender and the  *)
(* selected subject together, the empty selection (All) filtering nothing; *)
(* with All selected for both the list is the 40 records of the store.     *)

CsrMounted == csr # NotMounted

CsrSettled == CsrMounted /\ ~csr.effectPending

\* the records of the store with that gender and that subject, where the
\* empty string stands for any
Selected(g, s) ==
    SelectSeq(store,
        LAMBDA r :
            /\ g # EmptyString => r.gender = g
            /\ s # EmptyString => r.studysubject = s)

C23_CsrListConvergesToSelection ==
    /\ (CsrSettled /\ csr.gender = EmptyString /\ csr.subject = EmptyString) =>
          /\ csr.filteredStudents = store
          /\ Len(csr.filteredStudents) = 40
    /\ CsrSettled =>
          /\ csr.filteredStudents = Selected(csr.gender, csr.subject)
          /\ view.gender = csr.gender
          /\ view.subject = csr.subject
          /\ view.body = StudentList(Selected(csr.gender, csr.subject),
                                     DefaultLinkBase)

\* male and Computer Science are selected and the effect has run
C23_Witness ==
    /\ CsrSettled
    /\ csr.gender = <<"m","a","l","e">>
    /\ csr.subject = <<"C","o","m","p","u","t","e","r"," ","S","c","i","e","n","c","e">>
    /\ Len(csr.filteredStudents) = 5
    /\ Len(view.body.links) = 5

---------------------------------------------------------------------------
(* C24: absent data is rendered as a not-found state, never as a failure.  *)
(* StudentCard given null or undefined, as a failed findById returns it,   *)
(* renders "No student found." and nothing of a student; StudentList given *)
(* null, undefined or the empty list renders "No students found." and no   *)
(* link.                                                                   *)

Rendered(component) ==
    view # NotRendered /\ "component" \in DOMAIN view
        /\ view.component = component

NoList(list) == IF IsAbsent(list) THEN TRUE ELSE Len(list) = 0

C24_AbsentDataIsNotFound ==
    /\ (Rendered("StudentCard") /\ IsAbsent(view.student)) =>
          /\ view.output = NoStudentFound
          /\ DOMAIN view.output = {"tag", "text"}
    /\ (Rendered("StudentPage") /\ IsAbsent(view.student)) =>
          /\ view.output.body = NoStudentFound
          /\ view.output.body # Thrown
    /\ (Rendered("StudentList") /\ NoList(view.students)) =>
          /\ view.output = NoStudentsFound
          /\ "links" \notin DOMAIN view.output

\* the lookup of S999 on the store failed and the page shows the not-found
\* paragraph
C24_Witness ==
    /\ Rendered("StudentPage")
    /\ Called({"findById"})
    /\ LastCall.in = store
    /\ found = Null
    /\ view.student = Null
    /\ view.output.body.text = "No student found."

---------------------------------------------------------------------------
(* C25: getStaticProps of the catch-all route maps params to props.  With  *)
(* no params or no segments it returns all 40 students, gender "All" and   *)
(* subject "All"; with [g] the students of gender g, gender g and subject  *)
(* "All"; with [g, s] the students of gender g and subject s, gender g and *)
(* subject s; segments after the second change nothing.                    *)

\* the segments the params carry
SegmentsOf(params) ==
    IF IsAbsent(params) THEN <<>>
    ELSE IF IsAbsent(params.gendersubject) THEN <<>>
    ELSE params.gendersubject

\* the records of the store with that gender, and those of them with that
\* subject, both compared ignoring case
OfGender(g) == SelectSeq(store, LAMBDA r : EqualIgnoringCase(r.gender, g))

OfGenderAndSubject(g, s) ==
    SelectSeq(OfGender(g), LAMBDA r : EqualIgnoringCase(r.studysubject, s))

PropsFor(segments) ==
    CASE Len(segments) = 0 ->
           [students |-> store, gender |-> All, subject |-> All]
      [] Len(segments) = 1 ->
           [students |-> OfGender(segments[1]),
            gender |-> segments[1], subject |-> All]
      [] Len(segments) >= 2 ->
           [students |-> OfGenderAndSubject(segments[1], segments[2]),
            gender |-> segments[1], subject |-> segments[2]]

C25_ParamsMapToProps ==
    route = GenderSubjectRoute =>
        \A k \in DOMAIN pages :
            /\ pages[k].result.props = PropsFor(SegmentsOf(pages[k].params))
            /\ Len(SegmentsOf(pages[k].params)) = 0 =>
                   Len(pages[k].result.props.students) = 40
            /\ Len(SegmentsOf(pages[k].params)) = 1 =>
                   pages[k].result.props.students
                       = filterByGender(store, SegmentsOf(pages[k].params)[1])

\* three segments: the students are the female students of Physics,
\* whatever the third segment is
C25_Witness ==
    /\ route = GenderSubjectRoute
    /\ Len(pages) = 1
    /\ SegmentsOf(pages[1].params)
           = <<<<"F","E","M","A","L","E">>, <<"p","h","y","s","i","c","s">>, <<"R","o","m","e">>>>
    /\ Len(pages[1].result.props.students) = 5
    /\ pages[1].result.props.gender = <<"F","E","M","A","L","E">>
    /\ pages[1].result.props.subject = <<"p","h","y","s","i","c","s">>

---------------------------------------------------------------------------
(* C26: in every rendered state of the CSR page the list shown agrees with *)
(* the gender and subject shown in the dropdowns: it is the store filtered *)
(* by them, never the result of an earlier selection.                      *)

C26_ListAgreesWithDropdowns ==
    CsrMounted =>
        view.body = StudentList(Selected(view.gender, view.subject),
                                DefaultLinkBase)

\* What the page does instead: the render that follows a changed selection
\* shows the new selection in the dropdowns and the list as it was; the
\* list follows in the render after the effect.
C26_SelectionRendersThePreviousList ==
    [][(CsrMounted /\ CsrMounted' /\ ~csr.effectPending
            /\ csr'.effectPending) =>
          /\ view'.gender = csr'.gender
          /\ view'.subject = csr'.subject
          /\ <<view'.gender, view'.subject>> # <<view.gender, view.subject>>
          /\ view'.body = view.body]_vars

\* "male" is shown as selected above the list of all 40 students
C26_Witness ==
    /\ CsrMounted
    /\ csr.effectPending
    /\ view.gender = <<"m","a","l","e">>
    /\ view.subject = EmptyString
    /\ Len(view.body.links) = 40
    /\ Len(Selected(view.gender, view.subject)) = 20

---------------------------------------------------------------------------
(* C27: no link of the site into a prerendered dynamic route is dead.      *)
(* Every link that a served page renders with the link base                *)
(* "/students/idfilterssg" for a student of the store, and every example   *)
(* link of the index page into idfilterssg or gscatchallssg, names a path  *)
(* that getStaticPaths of its route enumerates; following one is never     *)
(* answered 404.                                                           *)

\* the paths getStaticPaths of a route enumerates
EnumeratedPaths(r) ==
    LET listed == IF r = IdRoute THEN getStaticPaths_ID.paths
                  ELSE getStaticPaths_gendersubject.paths
    IN  {PathOf(r, listed[i].params) : i \in DOMAIN listed}

IntoPrerenderedRoute(href) ==
    TargetRoute(href) \in {IdRoute, GenderSubjectRoute}

Followed == response # NoResponse /\ "link" \in DOMAIN response

C27_NoDeadLinkIntoPrerenderedRoutes ==
    /\ view # NotRendered =>
          \A k \in DOMAIN view.links :
              IntoPrerenderedRoute(view.links[k].href) =>
                  TargetSegments(view.links[k].href)
                      \in EnumeratedPaths(TargetRoute(view.links[k].href))
    /\ Followed => response.status = 200

\* the catch-all page of male Mathematics students, reached from the index
\* page, lists five students, each linked to a prerendered page
C27_Witness ==
    /\ Followed
    /\ response.link = <<"/","s","t","u","d","e","n","t","s","/","g","s","c","a","t","c","h","a","l","l","s","s","g","/","m","a","l","e","/","M","a","t","h","e","m","a","t","i","c","s">>
    /\ view # NotRendered
    /\ view.component = "GenderSubjectCatchAllPage"
    /\ Len(view.links) = 5
    /\ \A k \in DOMAIN view.links :
           TargetRoute(view.links[k].href) = IdRoute

---------------------------------------------------------------------------
(* C28: filterByName never duplicates a record.  A record whose firstname  *)
(* and lastname both equal the name is in the result once for each time it *)
(* is in the input; the result of every filter is at most as long as its   *)
(* input; and filterByName(students, "Fischer") on the store is the two    *)
(* records S004 and S026, in that order.                                   *)

BothNamesEqual(r, name) ==
    /\ EqualIgnoringCase(r.firstname, name)
    /\ EqualIgnoringCase(r.lastname, name)

Fischer == <<"F","i","s","c","h","e","r">>

C28_FilterByNameNeverDuplicates ==
    /\ Called(Filters) => Len(LastCall.out) <= Len(LastCall.in)
    /\ Called({"filterByName"}) =>
          /\ \A r \in Range(LastCall.in) :
                 /\ Count(LastCall.out, r) <= Count(LastCall.in, r)
                 /\ BothNamesEqual(r, LastCall.arg) =>
                        Count(LastCall.out, r) = Count(LastCall.in, r)
          /\ (LastCall.in = store /\ LastCall.arg = Fischer) =>
                 /\ LastCall.out = <<store[4], store[26]>>
                 /\ LastCall.out[1].ID = <<"S","0","0","4">>
                 /\ LastCall.out[2].ID = <<"S","0","2","6">>

\* filterByName was given, once, a record both of whose names are the
\* argument, and kept it once
C28_Witness ==
    /\ Called({"filterByName"})
    /\ \E r \in Range(LastCall.in) :
           /\ BothNamesEqual(r, LastCall.arg)
           /\ r.firstname # r.lastname
           /\ Count(LastCall.in, r) = 1
           /\ Count(LastCall.out, r) = 1

---------------------------------------------------------------------------
(* C29: the empty state of the CSR page is unreachable.  Whatever the      *)
(* dropdowns offer is selected, the list holds 40, 20, 10 or 5 students:   *)
(* 40 with no selection, 20 with a gender, 10 with a subject, 5 with both; *)
(* "No students found." is never shown.                                    *)

\* the size of the list for a selection
SizeFor(g, s) ==
    IF g = EmptyString
    THEN (IF s = EmptyString THEN 40 ELSE 10)
    ELSE (IF s = EmptyString THEN 20 ELSE 5)

C29_CsrListIsNeverEmpty ==
    CsrMounted =>
        /\ csr.gender \in GenderOptions
        /\ csr.subject \in SubjectOptions
        /\ Len(csr.filteredStudents) \in {40, 20, 10, 5}
        /\ CsrSettled =>
               Len(csr.filteredStudents) = SizeFor(csr.gender, csr.subject)
        /\ view.body # NoStudentsFound
        /\ Len(view.body.links) = Len(csr.filteredStudents)

\* the narrowest selection: the five female students of Medicine are shown
C29_Witness ==
    /\ CsrSettled
    /\ csr.gender = <<"f","e","m","a","l","e">>
    /\ csr.subject = <<"M","e","d","i","c","i","n","e">>
    /\ Len(view.body.links) = 5
    /\ view.body # NoStudentsFound

=============================================================================
